---- MODULE Spec2Model ----
(***************************************************************************)
(* Model of the THB -> MMK exchange bot: the balance ledger                *)
(* (admin_bank_accounts), the transaction registry (transactions), the     *)
(* exchange-rate row, the requester conversation and the operator          *)
(* handlers (counter-receipt, bank selection, cancel, admin commands).     *)
(* Amounts and rates are small integers standing for the REAL columns.     *)
(***************************************************************************)
EXTENDS Integers, Sequences, FiniteSets, Bags, TLC

(* ------------------------------ bounds -------------------------------- *)
MaxTxns == 1
MaxBalance == 2
MaxAccounts == 3
MaxKeyboards == 2
MaxDebits == 2
MaxOverdraft == 1
MaxText == 4
MaxCalls == 2

(* --------------------------- program constants ------------------------ *)
NoTime == -1
Now == 1
DefaultRate == 1
UPLOAD_RECEIPT == 0
ENTER_AMOUNT == 1
ENTER_BANK_INFO == 2
ConversationEnd == -1

None == "None"
(* ------------------------------ inputs -------------------------------- *)
Users == {7}
RateInputs == {2}
DeltaInputs == {-1, 1}
SetInputs == {0, 2}
AmountInputs == {0, 1}
OcrBanks == {"Absent", None, "SCB"}
OcrAmounts == {0, 1}
(* accounts: admin_bank_accounts rows, row id = position                   *)
(* txns: transactions rows, id = position                                  *)
(* rateRow: the exchange_rate table, <<>> or <<rate>>                      *)
(* conv: per requester, the conversation step and context.user_data        *)
(* keyboards: the bag of bank-selection messages still carrying buttons    *)
(* cancelButtons: transactions whose notification still has its Cancel     *)
(* debits: per transaction, the payout debits committed for it            *)
(* reply: the answer to the last bank selection, refused counter-receipt   *)
(* or blocked update, NoReply after any other handler                      *)
(* validation: the last direct call of validate_receiver_account, with its *)
(* arguments and the row id it returned (0 for None)                       *)
(* retry: the retry loop around the external call in progress              *)
(* settings: the bot_settings table, the stored value of each key or None  *)
(* evaluated: the last direct call of a helper function, with its          *)
(* arguments and the value it returned                                     *)
(* calls: the handler invocations dispatched whose store calls have not   *)
(* yet run                                                                *)
VARIABLES accounts, txns, rateRow, conv, keyboards, cancelButtons, debits, reply,
          validation, retry, settings, evaluated, calls

vars == <<accounts, txns, rateRow, conv, keyboards, cancelButtons, debits, reply,
          validation, retry, settings, evaluated, calls>>

(* ------------------------------ helpers ------------------------------- *)
InRange(v) == v >= -MaxOverdraft /\ v <= MaxBalance

(* index order of the UNIQUE(currency, bank_name, account_number) index *)
NumberRank(n) == IF n = "1" THEN 1 ELSE 2

(* ---------------------------- Ledger Store ---------------------------- *)
MatchingRows(accts, currency, bank) ==
  {i \in DOMAIN accts : accts[i].currency = currency /\ accts[i].bank_name = bank}

FirstByIndex(accts, rows) ==
  CHOOSE i \in rows : \A j \in rows : NumberRank(accts[i].account_number) <= NumberRank(accts[j].account_number)

(* get_balances: first listed (active) balance of a bank, as the handlers read it *)
ListedRows(accts, currency, bank) ==
  {i \in MatchingRows(accts, currency, bank) : accts[i].is_active}

ListedBalance(accts, currency, bank, default) ==
  IF ListedRows(accts, currency, bank) = {} THEN default
  ELSE accts[FirstByIndex(accts, ListedRows(accts, currency, bank))].balance

get_balance(accts, currency, bank) ==
  IF MatchingRows(accts, currency, bank) = {} THEN 0
  ELSE accts[FirstByIndex(accts, MatchingRows(accts, currency, bank))].balance

(* SET balance = ?: the change is written over the stored balance *)
update_balance_overwriting(accts, currency, bank, amount_change, ok) ==
  IF ~ok THEN accts
  ELSE [i \in DOMAIN accts |->
          IF i \in MatchingRows(accts, currency, bank)
          THEN [accts[i] EXCEPT !.balance = amount_change]
          ELSE accts[i]]

update_balance(accts, currency, bank, amount_change, ok) ==
  IF ~ok THEN accts
  ELSE [i \in DOMAIN accts |->
          IF i \in MatchingRows(accts, currency, bank)
          THEN [accts[i] EXCEPT !.balance = @ + amount_change]
          ELSE accts[i]]

set_balance(accts, currency, bank, new_balance, ok) ==
  IF ~ok THEN accts
  ELSE [i \in DOMAIN accts |->
          IF i \in MatchingRows(accts, currency, bank)
          THEN [accts[i] EXCEPT !.balance = new_balance]
          ELSE accts[i]]

(* INSERT OR REPLACE: the conflicting row is deleted and a fresh one inserted *)
add_admin_bank_account_replacing(accts, currency, bank, number, name) ==
  Append(SelectSeq(accts, LAMBDA row : ~(/\ row.currency = currency
                                         /\ row.bank_name = bank
                                         /\ row.account_number = number)),
         [currency |-> currency, bank_name |-> bank,
          account_number |-> number, account_name |-> name,
          balance |-> 0, is_active |-> TRUE])

add_admin_bank_account(accts, currency, bank, number, name) ==
  IF \E i \in DOMAIN accts : /\ accts[i].currency = currency
                             /\ accts[i].bank_name = bank
                             /\ accts[i].account_number = number
  THEN accts
  ELSE Append(accts, [currency |-> currency, bank_name |-> bank,
                      account_number |-> number, account_name |-> name,
                      balance |-> 0, is_active |-> TRUE])

deactivate_admin_bank_account_deleting(accts, account_id) ==
  SubSeq(accts, 1, account_id - 1) \o SubSeq(accts, account_id + 1, Len(accts))

deactivate_admin_bank_account(accts, account_id) ==
  [i \in DOMAIN accts |->
     IF i = account_id THEN [accts[i] EXCEPT !.is_active = FALSE] ELSE accts[i]]

(* the rows get_balances lists *)
get_balances(accts) == {i \in DOMAIN accts : accts[i].is_active}

(* the rows get_admin_bank_accounts lists for a currency *)
get_admin_bank_accounts(accts, currency) ==
  {i \in DOMAIN accts : accts[i].currency = currency /\ accts[i].is_active}

ActiveBankNames(accts, currency) ==
  {accts[i].bank_name : i \in {j \in DOMAIN accts : accts[j].currency = currency /\ accts[j].is_active}}

BalancesOk(accts) == \A i \in DOMAIN accts : InRange(accts[i].balance)

(* ------------------------- Transaction Registry ----------------------- *)
initialize_exchange_rate(row, default_rate) == IF row = <<>> THEN <<default_rate>> ELSE row

get_current_rate(row) == IF row = <<>> THEN DefaultRate ELSE row[1]

update_rate(row, new_rate) == IF row = <<>> THEN row ELSE <<new_rate>>

create_transaction(ts, user_id, thb_amount, mmk_amount, rate, admin_thb_bank) ==
  Append(ts, [user_id |-> user_id, thb_amount |-> thb_amount, mmk_amount |-> mmk_amount,
              rate |-> rate, admin_bank |-> None, admin_thb_bank |-> admin_thb_bank,
              status |-> "pending", admin_receipt_path |-> NoTime,
              confirmed_at |-> NoTime])

(* ORDER BY created_at DESC LIMIT 1 over the pending transactions of a user: *)
(* created_at has one-second resolution, so which of several pending rows    *)
(* comes first is not fixed by the id order                                   *)
get_user_recent_pending_transaction(ts, user_id) ==
  {i \in DOMAIN ts : ts[i].user_id = user_id /\ ts[i].status = "pending"}

update_transaction_status_wrong_row(ts, transaction_id, status) ==
  [i \in DOMAIN ts |->
     IF i = transaction_id + 1
     THEN [ts[i] EXCEPT !.status = status, !.confirmed_at = Now]
     ELSE ts[i]]

update_transaction_status(ts, transaction_id, status) ==
  [i \in DOMAIN ts |->
     IF i = transaction_id
     THEN [ts[i] EXCEPT !.status = status, !.confirmed_at = Now]
     ELSE ts[i]]

update_transaction_with_admin_bank_shifted(ts, transaction_id, status, admin_mmk_bank, admin_thb_bank, ok) ==
  IF ~ok THEN ts
  ELSE [i \in DOMAIN ts |->
          IF i = transaction_id
          THEN [ts[i] EXCEPT !.status = status, !.admin_bank = admin_mmk_bank,
                             !.admin_thb_bank = admin_thb_bank, !.rate = Now,
                             !.confirmed_at = Now]
          ELSE ts[i]]

update_transaction_with_admin_bank(ts, transaction_id, status, admin_mmk_bank, admin_thb_bank, ok) ==
  IF ~ok THEN ts
  ELSE [i \in DOMAIN ts |->
          IF i = transaction_id
          THEN [ts[i] EXCEPT !.status = status, !.admin_bank = admin_mmk_bank,
                             !.admin_thb_bank = admin_thb_bank, !.confirmed_at = Now]
          ELSE ts[i]]

update_transaction_admin_receipt(ts, transaction_id) ==
  [i \in DOMAIN ts |->
     IF i = transaction_id THEN [ts[i] EXCEPT !.admin_receipt_path = Now] ELSE ts[i]]

(* --------------------------- Account Matcher -------------------------- *)
(* Names and bank labels are strings; the matcher works on their          *)
(* characters, given by the table Chars.                                  *)
Chars(s) ==
  CASE s = "SCB" -> <<"S", "C", "B">>
    [] s = "KTB" -> <<"K", "T", "B">>
    [] s = "KBZ" -> <<"K", "B", "Z">>
    [] s = "AYA" -> <<"A", "Y", "A">>
    [] s = "KBank" -> <<"K", "B", "a", "n", "k">>
    [] s = "Siam Commercial" -> <<"S", "i", "a", "m", " ", "C", "o", "m", "m", "e", "r", "c", "i", "a", "l">>
    [] s = "Zarni" -> <<"Z", "a", "r", "n", "i">>
    [] s = "Zarmi" -> <<"Z", "a", "r", "m", "i">>
    [] s = "ZARNI" -> <<"Z", "A", "R", "N", "I">>
    [] s = "Mr. Zarni" -> <<"M", "r", ".", " ", "Z", "a", "r", "n", "i">>
    [] s = "Zaw" -> <<"Z", "a", "w">>
    [] s = "Admin" -> <<"A", "d", "m", "i", "n">>
    [] s = "MissThinZarHtet" -> <<"M", "i", "s", "s", "T", "h", "i", "n", "Z", "a", "r", "H", "t", "e", "t">>
    [] s = "Miss Thin Zar Htet" -> <<"M", "i", "s", "s", " ", "T", "h", "i", "n", " ", "Z", "a", "r", " ", "H", "t", "e", "t">>
    [] s = "zar ni" -> <<"z", "a", "r", " ", "n", "i">>
    [] s = "KrungthaiBank" -> <<"K", "r", "u", "n", "g", "t", "h", "a", "i", "B", "a", "n", "k">>
    [] s = "WrongBank" -> <<"W", "r", "o", "n", "g", "B", "a", "n", "k">>
    [] s = "K" -> <<"K">>
    [] s = "K_1" -> <<"K", "_", "1">>
    [] OTHER -> <<>>

UpperChars == <<"A", "B", "C", "D", "E", "F", "G", "H", "I", "J", "K", "L", "M", "N", "O", "P", "Q", "R", "S", "T", "U", "V", "W", "X", "Y", "Z">>

LowerChars == <<"a", "b", "c", "d", "e", "f", "g", "h", "i", "j", "k", "l", "m", "n", "o", "p", "q", "r", "s", "t", "u", "v", "w", "x", "y", "z">>

DigitChars == <<"0", "1", "2", "3", "4", "5", "6", "7", "8", "9">>

SeqRange(s) == {s[i] : i \in DOMAIN s}

UpperSet == SeqRange(UpperChars)

AlnumSet == SeqRange(UpperChars) \cup SeqRange(LowerChars) \cup SeqRange(DigitChars)

LowerMap == [c \in UpperSet |-> LowerChars[CHOOSE i \in DOMAIN UpperChars : UpperChars[i] = c]]

Lower(c) == IF c \in UpperSet THEN LowerMap[c] ELSE c

IsSpace(c) == c = " "

IsAlnum(c) == c \in AlnumSet

LowerAll(s) == [i \in DOMAIN s |-> Lower(s[i])]

RECURSIVE LStrip(_)
LStrip(s) == IF s # <<>> /\ IsSpace(Head(s)) THEN LStrip(Tail(s)) ELSE s

RECURSIVE RStrip(_)
RStrip(s) == IF s # <<>> /\ IsSpace(s[Len(s)]) THEN RStrip(SubSeq(s, 1, Len(s) - 1)) ELSE s

Strip(s) == RStrip(LStrip(s))

StartsWith(s, p) == Len(s) >= Len(p) /\ SubSeq(s, 1, Len(p)) = p

prefixes == <<<<"m", "i", "s", "s">>, <<"m", "r">>, <<"m", "r", "s">>, <<"m", "s">>, <<"d", "r">>, <<"p", "r", "o", "f">>, <<"s", "i", "r">>, <<"m", "a", "d", "a", "m">>>>

(* the for-loop over prefixes: the first prefix followed by ' ' or '.' is cut *)
RECURSIVE StripPrefix(_, _)
StripPrefix(s, k) ==
  IF k > Len(prefixes) THEN s
  ELSE IF StartsWith(s, prefixes[k] \o <<" ">>) \/ StartsWith(s, prefixes[k] \o <<".">>)
       THEN Strip(SubSeq(s, Len(prefixes[k]) + 2, Len(s)))
       ELSE StripPrefix(s, k + 1)

normalize_name(name) ==
  IF name = <<>> THEN <<>>
  ELSE SelectSeq(StripPrefix(Strip(LowerAll(name)), 1), IsAlnum)

Min2(a, b) == IF a <= b THEN a ELSE b

MinOf(S) == CHOOSE x \in S : \A y \in S : x <= y

(* row i of the distance matrix from row i - 1. The inner loop sets        *)
(*   matrix[i][j] = min(matrix[i-1][j] + 1, matrix[i][j-1] + 1,            *)
(*                      matrix[i-1][j-1] + cost)                           *)
(* left to right from matrix[i][0] = i; unfolding the middle term gives    *)
(* the entry as the least of i + j and up[k] + (j - k) for k in 1..j,      *)
(* where up[k] = min(matrix[i-1][k] + 1, matrix[i-1][k-1] + cost).         *)
(* Rows are sequences whose element j + 1 is column j.                     *)
BuildRow(s1, s2, prev, i) ==
  LET up == [k \in 1..Len(s2) |->
               Min2(prev[k + 1] + 1, prev[k] + (IF s1[i] = s2[k] THEN 0 ELSE 1))] @@ <<>>
  IN [c \in 1..(Len(s2) + 1) |->
        MinOf({i + (c - 1)} \cup {up[k] + (c - 1 - k) : k \in 1..(c - 1)})] @@ <<>>

(* the outer loop over the rows, from row 0 with matrix[0][j] = j; the     *)
(* distance is the last entry of the last row                             *)
Levenshtein(s1, s2) ==
  LET LevRows[i \in 1..(Len(s1) + 1), prev \in Seq(Nat)] ==
        IF i > Len(s1) THEN prev[Len(s2) + 1]
        ELSE LevRows[i + 1, BuildRow(s1, s2, prev, i)]
  IN LevRows[1, [c \in 1..(Len(s2) + 1) |-> c - 1]]

(* the distance divided by the length of the first string only *)
calculate_similarity_first_len(str1, str2) ==
  IF str1 = <<>> \/ str2 = <<>> THEN <<0, 1>>
  ELSE LET s1 == normalize_name(str1)
           s2 == normalize_name(str2)
       IN IF s1 = s2 THEN <<1, 1>>
          ELSE IF Len(s1) = 0 \/ Len(s2) = 0 THEN <<0, 1>>
          ELSE <<Len(s1) - Levenshtein(s1, s2), Len(s1)>>

(* similarity as the fraction <<numerator, denominator>> *)
calculate_similarity(str1, str2) ==
  IF str1 = <<>> \/ str2 = <<>> THEN <<0, 1>>
  ELSE LET s1 == normalize_name(str1)
           s2 == normalize_name(str2)
           max_len == IF Len(s1) >= Len(s2) THEN Len(s1) ELSE Len(s2)
       IN IF s1 = s2 THEN <<1, 1>>
          ELSE IF Len(s1) = 0 \/ Len(s2) = 0 THEN <<0, 1>>
          ELSE <<max_len - Levenshtein(s1, s2), max_len>>

FracGeq(a, b) == a[1] * b[2] >= b[1] * a[2]

FracGt(a, b) == a[1] * b[2] > b[1] * a[2]

FracAdd(a, b) == <<a[1] * b[2] + b[1] * a[2], a[2] * b[2]>>

(* the threshold lowered by the bank bonus *)
similarity_threshold_less_bonus == <<7, 10>>

similarity_threshold == <<4, 5>>

bank_bonus == <<1, 10>>

IsSubstring(a, b) ==
  \E k \in 0..(Len(b) - Len(a)) : SubSeq(b, k + 1, k + Len(a)) = a

bank_aliases(n) ==
  CASE n = <<"s", "c", "b">> -> <<"s", "i", "a", "m", "c", "o", "m", "m", "e", "r", "c", "i", "a", "l", "b", "a", "n", "k">>
    [] n = <<"s", "i", "a", "m", "c", "o", "m", "m", "e", "r", "c", "i", "a", "l">> -> <<"s", "i", "a", "m", "c", "o", "m", "m", "e", "r", "c", "i", "a", "l", "b", "a", "n", "k">>
    [] n = <<"s", "i", "a", "m", "c", "o", "m", "m", "e", "r", "c", "i", "a", "l", "b", "a", "n", "k">> -> <<"s", "i", "a", "m", "c", "o", "m", "m", "e", "r", "c", "i", "a", "l", "b", "a", "n", "k">>
    [] n = <<"s", "i", "a", "m">> -> <<"s", "i", "a", "m", "c", "o", "m", "m", "e", "r", "c", "i", "a", "l", "b", "a", "n", "k">>
    [] n = <<"k", "t", "b">> -> <<"k", "r", "u", "n", "g", "t", "h", "a", "i", "b", "a", "n", "k">>
    [] n = <<"k", "r", "u", "n", "g", "t", "h", "a", "i">> -> <<"k", "r", "u", "n", "g", "t", "h", "a", "i", "b", "a", "n", "k">>
    [] n = <<"k", "r", "u", "n", "g", "t", "h", "a", "i", "b", "a", "n", "k">> -> <<"k", "r", "u", "n", "g", "t", "h", "a", "i", "b", "a", "n", "k">>
    [] n = <<"p", "r", "o", "m", "p", "t", "p", "a", "y">> -> <<"p", "r", "o", "m", "p", "t", "p", "a", "y">>
    [] n = <<"k", "b", "a", "n", "k">> -> <<"k", "a", "s", "i", "k", "o", "r", "n">>
    [] n = <<"k", "a", "s", "i", "k", "o", "r", "n">> -> <<"k", "a", "s", "i", "k", "o", "r", "n">>
    [] n = <<"k", "a", "s", "i", "k", "o", "r", "n", "b", "a", "n", "k">> -> <<"k", "a", "s", "i", "k", "o", "r", "n">>
    [] n = <<"b", "b", "l">> -> <<"b", "a", "n", "g", "k", "o", "k", "b", "a", "n", "k">>
    [] n = <<"b", "a", "n", "g", "k", "o", "k">> -> <<"b", "a", "n", "g", "k", "o", "k", "b", "a", "n", "k">>
    [] n = <<"b", "a", "n", "g", "k", "o", "k", "b", "a", "n", "k">> -> <<"b", "a", "n", "g", "k", "o", "k", "b", "a", "n", "k">>
    [] OTHER -> n

(* the containment tests in one direction only *)
bank_matches_one_way(bank_name, acc_bank) ==
  LET normalized_input_bank == normalize_name(bank_name)
      normalized_acc_bank == normalize_name(acc_bank)
      check_input_bank == bank_aliases(normalized_input_bank)
      check_acc_bank == bank_aliases(normalized_acc_bank)
  IN \/ check_input_bank = check_acc_bank
     \/ IsSubstring(check_input_bank, check_acc_bank)
     \/ IsSubstring(normalized_input_bank, normalized_acc_bank)
     \/ check_input_bank = normalized_acc_bank
     \/ check_acc_bank = normalized_input_bank

bank_matches(bank_name, acc_bank) ==
  LET normalized_input_bank == normalize_name(bank_name)
      normalized_acc_bank == normalize_name(acc_bank)
      check_input_bank == bank_aliases(normalized_input_bank)
      check_acc_bank == bank_aliases(normalized_acc_bank)
  IN \/ check_input_bank = check_acc_bank
     \/ IsSubstring(check_input_bank, check_acc_bank)
     \/ IsSubstring(check_acc_bank, check_input_bank)
     \/ IsSubstring(normalized_input_bank, normalized_acc_bank)
     \/ IsSubstring(normalized_acc_bank, normalized_input_bank)
     \/ check_input_bank = normalized_acc_bank
     \/ check_acc_bank = normalized_input_bank

(* BINARY collation of the index on bank_name: byte order of the characters *)
AsciiOrder == <<" ", ".">> \o DigitChars \o UpperChars \o LowerChars

Code == [c \in SeqRange(AsciiOrder) |-> CHOOSE i \in DOMAIN AsciiOrder : AsciiOrder[i] = c] @@ <<>>

RECURSIVE BinaryLess(_, _)
BinaryLess(a, b) ==
  IF b = <<>> THEN FALSE
  ELSE IF a = <<>> THEN TRUE
  ELSE IF Head(a) = Head(b) THEN BinaryLess(Tail(a), Tail(b))
  ELSE Code[Head(a)] < Code[Head(b)]

IndexBefore(accts, i, j) ==
  \/ BinaryLess(Chars(accts[i].bank_name), Chars(accts[j].bank_name))
  \/ /\ accts[i].bank_name = accts[j].bank_name
     /\ NumberRank(accts[i].account_number) < NumberRank(accts[j].account_number)

ActiveRows(accts, currency) ==
  {i \in DOMAIN accts : accts[i].currency = currency /\ accts[i].is_active}

(* rows of the currency that are active, in the order the query returns them: *)
(* the query has no ORDER BY and is answered from the unique index            *)
RECURSIVE CandidateSeq(_, _)
CandidateSeq(accts, rows) ==
  IF rows = {} THEN <<>>
  ELSE LET first == CHOOSE i \in rows : \A j \in rows \ {i} : IndexBefore(accts, i, j)
       IN <<first>> \o CandidateSeq(accts, rows \ {first})

(* the names and bank labels the matcher is applied to; the similarity,   *)
(* normal form and bank comparison of each pair are tabulated (f @@ <<>>   *)
(* is f as an explicit table)                                             *)
NameStrings == {None, "Zarni", "Zarmi", "ZARNI", "Mr. Zarni", "Zaw", "Admin", "zar ni",
                "MissThinZarHtet", "Miss Thin Zar Htet"}

BankStrings == {None, "Absent", "SCB", "KTB", "KBZ", "AYA", "KBank", "Siam Commercial",
                "KrungthaiBank", "WrongBank"}

NormalizedName == [s \in NameStrings |-> normalize_name(Chars(s))] @@ <<>>

NameSimilarity ==
  [a \in NameStrings |-> [b \in NameStrings |-> calculate_similarity(Chars(a), Chars(b))] @@ <<>>] @@ <<>>

BankMatches ==
  [a \in BankStrings |-> [b \in BankStrings |-> bank_matches(Chars(a), Chars(b))] @@ <<>>] @@ <<>>

(* the score of one candidate: name similarity plus the bank-match bonus *)
MatchScore(accts, id, account_name, bank_name) ==
  IF bank_name # None /\ Chars(bank_name) # <<>> /\ BankMatches[bank_name][accts[id].bank_name]
  THEN FracAdd(NameSimilarity[account_name][accts[id].account_name], bank_bonus)
  ELSE NameSimilarity[account_name][accts[id].account_name]

(* the loop over the candidates: returns the matched row id, 0 for no match *)
RECURSIVE MatchLoop(_, _, _, _, _, _)
MatchLoop(accts, cands, account_name, bank_name, best_match, best_similarity) ==
  IF cands = <<>> THEN best_match
  ELSE LET id == Head(cands)
           name_similarity == NameSimilarity[account_name][accts[id].account_name]
           exact_name_match == NormalizedName[account_name] = NormalizedName[accts[id].account_name]
           fuzzy_name_match == FracGeq(name_similarity, similarity_threshold)
           name_matches == exact_name_match \/ fuzzy_name_match
           match_score == MatchScore(accts, id, account_name, bank_name)
           better == name_matches /\ FracGt(match_score, best_similarity)
       IN IF name_matches /\ exact_name_match THEN id
          ELSE MatchLoop(accts, Tail(cands), account_name, bank_name,
                         IF better THEN id ELSE best_match,
                         IF better THEN match_score ELSE best_similarity)

(* a matcher that rejects a candidate whose bank does not match the label *)
validate_receiver_account_bank_required(accts, account_name, bank_name, currency) ==
  LET found == MatchLoop(accts, CandidateSeq(accts, ActiveRows(accts, currency)),
                         account_name, bank_name, 0, <<0, 1>>)
  IN IF /\ found # 0
        /\ bank_name # None /\ Chars(bank_name) # <<>>
        /\ ~BankMatches[bank_name][accts[found].bank_name]
     THEN 0 ELSE found

validate_receiver_account(accts, account_name, bank_name, currency) ==
  MatchLoop(accts, CandidateSeq(accts, ActiveRows(accts, currency)), account_name, bank_name, 0, <<0, 1>>)

(* ------------------------------- state -------------------------------- *)
(* user_data of a requester, with the rate and the target amount of the   *)
(* last quote the bot showed in the requester's chat                      *)
EmptyUserData == [step |-> ConversationEnd, thb_amount |-> 0,
                  admin_thb_bank |-> "Unset", receiver_bank |-> "Absent",
                  quoted_rate |-> 0, quoted_mmk |-> 0]

(* the conversation after the bot accepted an amount and quoted the       *)
(* target amount at the rate it read                                      *)
Quoted(ud, amount, rate) ==
  [ud EXCEPT !.thb_amount = amount, !.step = ENTER_BANK_INFO,
             !.quoted_rate = rate, !.quoted_mmk = amount * rate]

Reply(result) == [result |-> result, current |-> 0, required |-> 0, shortage |-> 0]

NoReply == Reply("none")

Abs(x) == IF x < 0 THEN -x ELSE x

NoValidation == [input_name |-> None, input_bank |-> None, result |-> 0, called |-> FALSE]

NoRetry == [call |-> "none", attempt |-> 0, retry_delay |-> 0, sleeps |-> <<>>,
            results |-> <<>>, outcome |-> "idle"]

NoSettings == [admin_group_id |-> None, admin_topic_id |-> None, balance_topic_id |-> None]

NoEvaluation == [fn |-> "none", args |-> <<>>, result |-> None]

InitAccounts ==
  << [currency |-> "THB", bank_name |-> "SCB", account_number |-> "1",
      account_name |-> "Zarni", balance |-> 0, is_active |-> TRUE],
     [currency |-> "MMK", bank_name |-> "KBZ", account_number |-> "1",
      account_name |-> "Admin", balance |-> 2, is_active |-> TRUE] >>

Init ==
  /\ accounts = InitAccounts
  /\ txns = <<>>
  /\ rateRow = <<DefaultRate>>
  /\ conv = [u \in Users |-> EmptyUserData]
  /\ keyboards = EmptyBag
  /\ cancelButtons = {}
  /\ debits = <<>>
  /\ reply = NoReply
  /\ validation = NoValidation
  /\ retry = NoRetry
  /\ settings = NoSettings
  /\ evaluated = NoEvaluation
  /\ calls = {}

(* ------------------------- requester conversation --------------------- *)
StartExchange(u) ==
  /\ conv[u].step = ConversationEnd
  /\ conv' = [conv EXCEPT ![u].step = UPLOAD_RECEIPT]
  /\ reply' = NoReply
  /\ UNCHANGED <<accounts, txns, rateRow, keyboards, cancelButtons, debits>>
  /\ UNCHANGED <<validation, retry, settings, evaluated, calls>>

ReceiverRejectedOnMatch(receiver_name, admin_account) ==
  receiver_name # None /\ admin_account # 0

(* a receiver name was extracted and the matcher returned None *)
ReceiverRejected(receiver_name, admin_account) ==
  receiver_name # None /\ admin_account = 0

(* the handler without its test of the extracted status *)
HandleReceiptIgnoringStatus(u, r) ==
  /\ conv[u].step = UPLOAD_RECEIPT
  /\ LET admin_account ==
           IF r.receiver_name # None
           THEN validate_receiver_account(accounts, r.receiver_name, r.receiver_bank, "THB")
           ELSE 0
         withInfo == [conv[u] EXCEPT !.receiver_bank = r.receiver_bank]
         validated == IF r.receiver_name # None /\ admin_account # 0
                      THEN [withInfo EXCEPT !.admin_thb_bank = accounts[admin_account].bank_name]
                      ELSE withInfo
     IN IF ~r.downloaded
        THEN /\ conv' = conv
        ELSE IF ~r.extracted
        THEN /\ conv' = conv
        ELSE IF ReceiverRejected(r.receiver_name, admin_account)
        THEN /\ conv' = [conv EXCEPT ![u] = withInfo]
        ELSE IF r.amount # 0
        THEN /\ conv' = [conv EXCEPT ![u] = Quoted(validated, r.amount, get_current_rate(rateRow))]
        ELSE /\ conv' = [conv EXCEPT ![u] = [validated EXCEPT !.step = ENTER_AMOUNT]]
  /\ reply' = NoReply
  /\ UNCHANGED <<accounts, txns, rateRow, keyboards, cancelButtons, debits>>
  /\ UNCHANGED <<validation, retry, settings, evaluated, calls>>

HandleReceipt(u, r) ==
  /\ conv[u].step = UPLOAD_RECEIPT
  /\ LET admin_account ==
           IF r.receiver_name # None
           THEN validate_receiver_account(accounts, r.receiver_name, r.receiver_bank, "THB")
           ELSE 0
         withInfo == [conv[u] EXCEPT !.receiver_bank = r.receiver_bank]
         validated == IF r.receiver_name # None /\ admin_account # 0
                      THEN [withInfo EXCEPT !.admin_thb_bank = accounts[admin_account].bank_name]
                      ELSE withInfo
     IN IF ~r.downloaded
        THEN /\ conv' = conv
        ELSE IF ~r.extracted
        THEN /\ conv' = conv
        ELSE IF ~r.status_ok
        THEN /\ conv' = [conv EXCEPT ![u] = withInfo]
        ELSE IF ReceiverRejected(r.receiver_name, admin_account)
        THEN /\ conv' = [conv EXCEPT ![u] = withInfo]
        ELSE IF r.amount # 0
        THEN /\ conv' = [conv EXCEPT ![u] = Quoted(validated, r.amount, get_current_rate(rateRow))]
        ELSE /\ conv' = [conv EXCEPT ![u] = [validated EXCEPT !.step = ENTER_AMOUNT]]
  /\ reply' = NoReply
  /\ UNCHANGED <<accounts, txns, rateRow, keyboards, cancelButtons, debits>>
  /\ UNCHANGED <<validation, retry, settings, evaluated, calls>>

HandleAmount(u, amount) ==
  /\ conv[u].step = ENTER_AMOUNT
  /\ IF amount <= 0
     THEN /\ conv' = conv
     ELSE /\ conv' = [conv EXCEPT ![u] = Quoted(conv[u], amount, get_current_rate(rateRow))]
  /\ reply' = NoReply
  /\ UNCHANGED <<accounts, txns, rateRow, keyboards, cancelButtons, debits>>
  /\ UNCHANGED <<validation, retry, settings, evaluated, calls>>

SubmitBank(ud) ==
  IF ud.admin_thb_bank # "Unset" THEN ud.admin_thb_bank
  ELSE IF ud.receiver_bank = "Absent" THEN "KBank"
  ELSE ud.receiver_bank

(* notified: whether _notify_admin delivered the notification; when every  *)
(* attempt fails _send_message_with_retry returns None, _notify_admin ends  *)
(* and the handler goes on to its success reply                            *)
HandleBankInfo(u, valid, notified) ==
  /\ conv[u].step = ENTER_BANK_INFO
  /\ IF ~valid
     THEN /\ UNCHANGED <<accounts, txns, conv, cancelButtons, debits>>
     ELSE LET thb_amount == conv[u].thb_amount
              rate == get_current_rate(rateRow)
              mmk_amount == thb_amount * rate
              admin_thb_bank == SubmitBank(conv[u])
              transaction_id == Len(txns) + 1
          IN /\ Len(txns) < MaxTxns
             /\ txns' = create_transaction(txns, u, thb_amount, mmk_amount, rate, admin_thb_bank)
             /\ accounts' = update_balance(accounts, "THB", admin_thb_bank, thb_amount, TRUE)
             /\ BalancesOk(accounts')
             /\ cancelButtons' = IF notified THEN cancelButtons \cup {transaction_id}
                                 ELSE cancelButtons
             /\ debits' = Append(debits, 0)
             /\ conv' = [conv EXCEPT ![u] = EmptyUserData]
  /\ reply' = NoReply
  /\ UNCHANGED <<rateRow, keyboards>>
  /\ UNCHANGED <<validation, retry, settings, evaluated, calls>>

CancelConversation(u) ==
  /\ conv[u].step # ConversationEnd
  /\ conv' = [conv EXCEPT ![u] = EmptyUserData]
  /\ reply' = NoReply
  /\ UNCHANGED <<accounts, txns, rateRow, keyboards, cancelButtons, debits>>
  /\ UNCHANGED <<validation, retry, settings, evaluated, calls>>

(* ------------------------------ Validators ---------------------------- *)
(* Texts are sequences of characters. A parsed value is <<v>>, None is    *)
(* <<>>. float() is modelled on texts of digits, signs, spaces, commas    *)
(* and letters: surrounding spaces and one sign are allowed around a      *)
(* non-empty run of digits, anything else raises ValueError.              *)
RECURSIVE Split(_, _)
Split(text, sep) ==
  IF \A i \in DOMAIN text : text[i] # sep THEN <<text>>
  ELSE LET k == CHOOSE i \in DOMAIN text : text[i] = sep /\ \A j \in 1..(i - 1) : text[j] # sep
       IN <<SubSeq(text, 1, k - 1)>> \o Split(SubSeq(text, k + 1, Len(text)), sep)

Replace(text, old) == SelectSeq(text, LAMBDA c : c # old)

DigitSet == SeqRange(DigitChars)

RECURSIVE DigitsValue(_)
DigitsValue(digits) ==
  IF digits = <<>> THEN 0
  ELSE 10 * DigitsValue(SubSeq(digits, 1, Len(digits) - 1))
       + (CHOOSE i \in DOMAIN DigitChars : DigitChars[i] = digits[Len(digits)]) - 1

float(text) ==
  LET trimmed == Strip(text)
      signed == trimmed # <<>> /\ Head(trimmed) \in {"-", "+"}
      digits == IF signed THEN Tail(trimmed) ELSE trimmed
  IN IF digits = <<>> \/ \E i \in DOMAIN digits : digits[i] \notin DigitSet THEN <<>>
     ELSE IF signed /\ Head(trimmed) = "-" THEN <<-DigitsValue(digits)>>
     ELSE <<DigitsValue(digits)>>

validate_amount(amount_str) ==
  LET amount == float(Replace(amount_str, ","))
  IN IF amount = <<>> THEN <<>>
     ELSE IF amount[1] <= 0 THEN <<>>
     ELSE amount

validate_bank_info(bank_info_str) ==
  LET parts == Split(bank_info_str, "|")
  IN IF Len(parts) # 3 THEN <<>>
     ELSE IF \E i \in 1..3 : Strip(parts[i]) = <<>> THEN <<>>
     ELSE <<Strip(parts[1]), Strip(parts[2]), Strip(parts[3])>>

MMK_BANKS == { <<"K", "B", "Z">>,
               <<"A", "Y", "A">>,
               <<"C", "B", " ", "B", "a", "n", "k">>,
               <<"K", "P", "a", "y">>,
               <<"W", "a", "v", "e", " ", "M", "o", "n", "e", "y">> }

(* the two checks of handle_bank_info on the message text *)
BankInfoAccepted(text) ==
  LET bank_info == Split(text, "|")
  IN /\ Len(bank_info) = 3
     /\ \E bank \in MMK_BANKS : IsSubstring(LowerAll(bank), LowerAll(Strip(bank_info[1])))

(* handle_amount on the message text: float() raising ValueError gives    *)
(* the same answer as an amount that is not positive                      *)
HandleAmountText(u, text) ==
  LET amount == float(Replace(text, ","))
  IN IF amount = <<>> THEN HandleAmount(u, 0) ELSE HandleAmount(u, amount[1])

HandleBankInfoText(u, text, notified) == HandleBankInfo(u, BankInfoAccepted(text), notified)

(* the callback payload of a bank button, f"bank_{bank_name}_{id}", and    *)
(* its decoding by split('_'); texts are sequences of characters          *)
RECURSIVE str(_)
str(n) ==
  IF n < 10 THEN <<DigitChars[n + 1]>>
  ELSE str(n \div 10) \o <<DigitChars[(n % 10) + 1]>>

(* int() and float() accept the same literals among texts of digits,      *)
(* letters, spaces and signs                                               *)
int(text) == float(text)

callback_data(bank_name, transaction_id) ==
  <<"b", "a", "n", "k", "_">> \o bank_name \o <<"_">> \o str(transaction_id)

parse_callback_data(data) ==
  LET parts == Split(data, "_")
  IN IF Len(parts) < 3
     THEN [raised |-> "IndexError", bank |-> <<>>, transaction_id |-> 0]
     ELSE IF int(parts[3]) = <<>>
     THEN [raised |-> "ValueError", bank |-> parts[2], transaction_id |-> 0]
     ELSE [raised |-> "none", bank |-> parts[2], transaction_id |-> int(parts[3])[1]]

(* the registered bank name a decoded text spells *)
PayoutBankNames == {"KBZ", "AYA", "K", "K_1"}

BankNamed(text) ==
  IF \E b \in PayoutBankNames : Chars(b) = text
  THEN CHOOSE b \in PayoutBankNames : Chars(b) = text
  ELSE None

(* --------------------------- operator handlers ------------------------ *)
(* m: the transaction whose notification message the operator replies to; *)
(* the id is read from its Cancel button, else looked up by requester id  *)
(* the handler without its status test *)
HandleAdminReceiptUnchecked(m, transaction_id) ==
  /\ m \in DOMAIN txns
  /\ transaction_id \in
       IF m \in cancelButtons THEN {m}
       ELSE IF get_user_recent_pending_transaction(txns, txns[m].user_id) = {} THEN {0}
       ELSE get_user_recent_pending_transaction(txns, txns[m].user_id)
  /\ IF transaction_id = 0
     THEN /\ UNCHANGED <<txns, keyboards>>
     ELSE /\ txns' = update_transaction_admin_receipt(txns, transaction_id)
          /\ IF ActiveBankNames(accounts, "MMK") = {}
             THEN /\ UNCHANGED keyboards
             ELSE /\ BagCardinality(keyboards) < MaxKeyboards
                  /\ keyboards' = keyboards (+) SetToBag({[txn |-> transaction_id,
                                                           banks |-> ActiveBankNames(accounts, "MMK")]})
  /\ reply' = NoReply
  /\ UNCHANGED <<accounts, rateRow, conv, cancelButtons, debits>>
  /\ UNCHANGED <<validation, retry, settings, evaluated, calls>>

(* the handler refusing a second counter-receipt for a transaction *)
HandleAdminReceiptOnce(m, transaction_id) ==
  /\ m \in DOMAIN txns
  /\ transaction_id \in
       IF m \in cancelButtons THEN {m}
       ELSE IF get_user_recent_pending_transaction(txns, txns[m].user_id) = {} THEN {0}
       ELSE get_user_recent_pending_transaction(txns, txns[m].user_id)
  /\ IF transaction_id = 0
     THEN /\ UNCHANGED <<txns, keyboards>>
          /\ reply' = NoReply
     ELSE IF txns[transaction_id].status = "confirmed"
     THEN /\ UNCHANGED <<txns, keyboards>>
          /\ reply' = Reply("already_confirmed")
     ELSE IF txns[transaction_id].status = "cancelled"
     THEN /\ UNCHANGED <<txns, keyboards>>
          /\ reply' = Reply("has_been_cancelled")
     ELSE IF txns[transaction_id].admin_receipt_path # NoTime
     THEN /\ UNCHANGED <<txns, keyboards>>
          /\ reply' = Reply("already_uploaded")
     ELSE /\ txns' = update_transaction_admin_receipt(txns, transaction_id)
          /\ IF ActiveBankNames(accounts, "MMK") = {}
             THEN /\ UNCHANGED keyboards
             ELSE /\ BagCardinality(keyboards) < MaxKeyboards
                  /\ keyboards' = keyboards (+) SetToBag({[txn |-> transaction_id,
                                                           banks |-> ActiveBankNames(accounts, "MMK")]})
          /\ reply' = NoReply
  /\ UNCHANGED <<accounts, rateRow, conv, cancelButtons, debits>>
  /\ UNCHANGED <<validation, retry, settings, evaluated, calls>>

HandleAdminReceipt(m, transaction_id) ==
  /\ m \in DOMAIN txns
  /\ transaction_id \in
       IF m \in cancelButtons THEN {m}
       ELSE IF get_user_recent_pending_transaction(txns, txns[m].user_id) = {} THEN {0}
       ELSE get_user_recent_pending_transaction(txns, txns[m].user_id)
  /\ IF transaction_id = 0
     THEN /\ UNCHANGED <<txns, keyboards>>
          /\ reply' = NoReply
     ELSE IF txns[transaction_id].status = "confirmed"
     THEN /\ UNCHANGED <<txns, keyboards>>
          /\ reply' = Reply("already_confirmed")
     ELSE IF txns[transaction_id].status = "cancelled"
     THEN /\ UNCHANGED <<txns, keyboards>>
          /\ reply' = Reply("has_been_cancelled")
     ELSE /\ txns' = update_transaction_admin_receipt(txns, transaction_id)
          /\ IF ActiveBankNames(accounts, "MMK") = {}
             THEN /\ UNCHANGED keyboards
             ELSE /\ BagCardinality(keyboards) < MaxKeyboards
                  /\ keyboards' = keyboards (+) SetToBag({[txn |-> transaction_id,
                                                           banks |-> ActiveBankNames(accounts, "MMK")]})
          /\ reply' = NoReply
  /\ UNCHANGED <<accounts, rateRow, conv, cancelButtons, debits>>
  /\ UNCHANGED <<validation, retry, settings, evaluated, calls>>

InsufficientFundsSwapped(mmk_before, mmk_amount) == mmk_amount - mmk_before < 0

InsufficientFundsStrict(mmk_before, mmk_amount) == mmk_before - mmk_amount <= 0

InsufficientFunds(mmk_before, mmk_amount) == mmk_before - mmk_amount < 0

(* k: the bank-selection message, button: the bank whose button is        *)
(* pressed on it; the handler works on what it decodes from the payload;  *)
(* okBalance, okStatus: whether the two store calls commit                *)
admin_bank_selection_callback(k, button, okBalance, okStatus) ==
  /\ k \in BagToSet(keyboards)
  /\ button \in k.banks
  /\ LET parts == parse_callback_data(callback_data(Chars(button), k.txn))
         bank == BankNamed(parts.bank)
         transaction_id == parts.transaction_id
     IN IF parts.raised # "none"
        THEN /\ reply' = Reply(parts.raised)
             /\ UNCHANGED <<accounts, txns, debits, keyboards>>
        ELSE IF transaction_id \notin DOMAIN txns
        THEN /\ reply' = Reply("not_found")
             /\ keyboards' = keyboards (-) SetToBag({k})
             /\ UNCHANGED <<accounts, txns, debits>>
        ELSE LET mmk_amount == txns[transaction_id].mmk_amount
                 admin_thb_bank == txns[transaction_id].admin_thb_bank
                 mmk_before == ListedBalance(accounts, "MMK", bank, 0)
                 mmk_after == mmk_before - mmk_amount
             IN /\ IF InsufficientFunds(mmk_before, mmk_amount)
                   THEN /\ reply' = [result |-> "insufficient_funds", current |-> mmk_before,
                                     required |-> mmk_amount, shortage |-> Abs(mmk_after)]
                        /\ UNCHANGED <<accounts, txns, debits>>
                   ELSE /\ accounts' = update_balance(accounts, "MMK", bank, -mmk_amount, okBalance)
                        /\ BalancesOk(accounts')
                        /\ debits' = [debits EXCEPT ![transaction_id] = IF okBalance THEN @ + 1 ELSE @]
                        /\ txns' = update_transaction_with_admin_bank(txns, transaction_id, "confirmed",
                                                                      bank, admin_thb_bank, okStatus)
                        /\ reply' = Reply("confirmed")
                /\ keyboards' = keyboards (-) SetToBag({k})
  /\ UNCHANGED <<rateRow, conv, cancelButtons>>
  /\ UNCHANGED <<validation, retry, settings, evaluated>>

(* the callback handled with no other update dispatched during its awaits *)
BankSelection(k, bank, okBalance, okStatus) ==
  /\ admin_bank_selection_callback(k, bank, okBalance, okStatus)
  /\ UNCHANGED calls

(* the button press is dispatched and the handler waits in query.answer() *)
AnswerCallback(k, bank) ==
  /\ k \in BagToSet(keyboards)
  /\ bank \in k.banks
  /\ [k |-> k, bank |-> bank] \notin calls
  /\ calls' = calls \cup {[k |-> k, bank |-> bank]}
  /\ UNCHANGED <<accounts, txns, rateRow, conv, keyboards, cancelButtons, debits, reply>>
  /\ UNCHANGED <<validation, retry, settings, evaluated>>

(* the handler resumes after query.answer() and runs to its next await    *)
ResumeBankSelection(c) ==
  /\ c \in calls
  /\ admin_bank_selection_callback(c.k, c.bank, TRUE, TRUE)
  /\ calls' = calls \ {c}

AdminCancel(transaction_id) ==
  /\ transaction_id \in cancelButtons
  /\ txns' = update_transaction_status(txns, transaction_id, "cancelled")
  /\ cancelButtons' = cancelButtons \ {transaction_id}
  /\ reply' = NoReply
  /\ UNCHANGED <<accounts, rateRow, conv, keyboards, debits>>
  /\ UNCHANGED <<validation, retry, settings, evaluated, calls>>

(* --------------------------- admin commands --------------------------- *)
InitializeExchangeRate ==
  /\ rateRow' = initialize_exchange_rate(rateRow, DefaultRate)
  /\ reply' = NoReply
  /\ UNCHANGED <<accounts, txns, conv, keyboards, cancelButtons, debits>>
  /\ UNCHANGED <<validation, retry, settings, evaluated, calls>>

RateCommand(new_rate) ==
  /\ rateRow' = update_rate(rateRow, new_rate)
  /\ reply' = NoReply
  /\ UNCHANGED <<accounts, txns, conv, keyboards, cancelButtons, debits>>
  /\ UNCHANGED <<validation, retry, settings, evaluated, calls>>

AddBank(a) ==
  /\ accounts' = add_admin_bank_account(accounts, a[1], a[2], a[3], a[4])
  /\ Len(accounts') <= MaxAccounts
  /\ reply' = NoReply
  /\ UNCHANGED <<txns, rateRow, conv, keyboards, cancelButtons, debits>>
  /\ UNCHANGED <<validation, retry, settings, evaluated, calls>>

RemoveBank(account_id) ==
  /\ accounts' = deactivate_admin_bank_account(accounts, account_id)
  /\ reply' = NoReply
  /\ UNCHANGED <<txns, rateRow, conv, keyboards, cancelButtons, debits>>
  /\ UNCHANGED <<validation, retry, settings, evaluated, calls>>

(* /adjust with a signed amount: relative change *)
AdjustRelative(currency, bank, amount_change) ==
  /\ accounts' = update_balance(accounts, currency, bank, amount_change, TRUE)
  /\ BalancesOk(accounts')
  /\ reply' = NoReply
  /\ UNCHANGED <<txns, rateRow, conv, keyboards, cancelButtons, debits>>
  /\ UNCHANGED <<validation, retry, settings, evaluated, calls>>

(* /adjust with an unsigned amount: absolute value *)
AdjustAbsolute(currency, bank, new_balance) ==
  /\ accounts' = set_balance(accounts, currency, bank, new_balance, TRUE)
  /\ reply' = NoReply
  /\ UNCHANGED <<txns, rateRow, conv, keyboards, cancelButtons, debits>>
  /\ UNCHANGED <<validation, retry, settings, evaluated, calls>>

(* start-up of a new process on the same database: DatabaseService() runs  *)
(* init_database, which creates nothing on an existing database, then the  *)
(* configured balances and the default rate are initialised                *)
(* the UPDATE without its test of the stored balance *)
initialize_balances_overwriting(accts, initial_balances) ==
  [i \in DOMAIN accts |->
     IF \E b \in initial_balances : /\ b[1] = accts[i].currency
                                     /\ b[2] = accts[i].bank_name
     THEN [accts[i] EXCEPT !.balance =
             (CHOOSE b \in initial_balances : b[1] = accts[i].currency /\ b[2] = accts[i].bank_name)[3]]
     ELSE accts[i]]

initialize_balances(accts, initial_balances) ==
  [i \in DOMAIN accts |->
     IF \E b \in initial_balances : /\ b[1] = accts[i].currency
                                     /\ b[2] = accts[i].bank_name
                                     /\ accts[i].balance = 0
     THEN [accts[i] EXCEPT !.balance =
             (CHOOSE b \in initial_balances : b[1] = accts[i].currency /\ b[2] = accts[i].bank_name)[3]]
     ELSE accts[i]]

INITIAL_BALANCES == { <<"THB", "SCB", 2>>, <<"MMK", "KBZ", 2>> }

Reconnect ==
  /\ accounts' = initialize_balances(accounts, INITIAL_BALANCES)
  /\ rateRow' = initialize_exchange_rate(rateRow, DefaultRate)
  /\ reply' = NoReply
  /\ UNCHANGED <<txns, conv, keyboards, cancelButtons, debits>>
  /\ UNCHANGED <<validation, retry, settings, evaluated, calls>>

(* /addbank with a currency, bank and number the admin types *)
LedgerKeys == { <<"MMK", "KBZ", "2", "Admin">>, <<"MMK", "AYA", "1", "Admin">>,
                <<"MMK", "KBZ", "1", "Zaw">>, <<"MMK", "KBZ", "2", "Zaw">> }

(* ------------------------ direct matcher calls ------------------------ *)
TestReceiverValidation(input_name, input_bank) ==
  /\ validation' = [input_name |-> input_name, input_bank |-> input_bank,
                    result |-> validate_receiver_account(accounts, input_name, input_bank, "THB"),
                    called |-> TRUE]
  /\ reply' = NoReply
  /\ UNCHANGED <<accounts, txns, rateRow, conv, keyboards, cancelButtons, debits, retry,
               settings, evaluated, calls>>

(* ----------------------------- retry loops ---------------------------- *)
max_retries == 3

initial_retry_delay == 2

(* the external calls wrapped in a retry loop: the two downloads and the   *)
(* functions handed to _send_message_with_retry                            *)
ExternalCalls == {"download_receipt", "download_admin_receipt",
                  "send_message", "send_photo", "edit_text"}

TransientErrors == {"TimedOut", "NetworkError"}

CallResults == {"ok", "Other"} \cup TransientErrors

BeginCall(call) ==
  /\ retry.outcome # "running"
  /\ retry' = [call |-> call, attempt |-> 0, retry_delay |-> initial_retry_delay,
               sleeps |-> <<>>, results |-> <<>>, outcome |-> "running"]
  /\ reply' = NoReply
  /\ UNCHANGED <<accounts, txns, rateRow, conv, keyboards, cancelButtons, debits, validation,
               settings, evaluated, calls>>

AttemptWithoutDoubling(result) ==
  /\ retry.outcome = "running"
  /\ retry.attempt < max_retries
  /\ LET tried == [retry EXCEPT !.attempt = @ + 1, !.results = Append(@, result)]
     IN retry' =
          IF result = "ok"
          THEN [tried EXCEPT !.outcome = "returned"]
          ELSE IF result \in TransientErrors
          THEN IF retry.attempt < max_retries - 1
               THEN [tried EXCEPT !.sleeps = Append(@, retry.retry_delay)]
               ELSE [tried EXCEPT !.outcome = "failed"]
          ELSE [tried EXCEPT !.outcome = "raised"]
  /\ reply' = NoReply
  /\ UNCHANGED <<accounts, txns, rateRow, conv, keyboards, cancelButtons, debits, validation,
               settings, evaluated, calls>>

(* one iteration of the for-loop; retry.attempt is the loop variable *)
Attempt(result) ==
  /\ retry.outcome = "running"
  /\ retry.attempt < max_retries
  /\ LET tried == [retry EXCEPT !.attempt = @ + 1, !.results = Append(@, result)]
     IN retry' =
          IF result = "ok"
          THEN [tried EXCEPT !.outcome = "returned"]
          ELSE IF result \in TransientErrors
          THEN IF retry.attempt < max_retries - 1
               THEN [tried EXCEPT !.sleeps = Append(@, retry.retry_delay),
                                  !.retry_delay = @ * 2]
               ELSE [tried EXCEPT !.outcome = "failed"]
          ELSE [tried EXCEPT !.outcome = "raised"]
  /\ reply' = NoReply
  /\ UNCHANGED <<accounts, txns, rateRow, conv, keyboards, cancelButtons, debits, validation,
               settings, evaluated, calls>>

(* --------------------------- command protection ---------------------- *)
ADMIN_GROUP_ID == "-100"

get_setting(table, key) == table[key]

set_setting(table, key, value) == [table EXCEPT ![key] = value]

(* self.db.get_setting('admin_group_id') or Config.ADMIN_GROUP_ID *)
admin_group_id(table) ==
  IF get_setting(table, "admin_group_id") \in {None, ""} THEN ADMIN_GROUP_ID
  ELSE get_setting(table, "admin_group_id")

(* the wrapper answers with its warning and returns None: the update      *)
(* handler is not called                                                  *)
Blocked(warning) ==
  /\ reply' = Reply(warning)
  /\ UNCHANGED <<accounts, txns, rateRow, conv, keyboards, cancelButtons, debits,
                 validation, retry, settings, evaluated, calls>>

(* a guard that reads only the configured group id *)
admin_only_configured(chat, Body) ==
  IF chat.id # ADMIN_GROUP_ID THEN Blocked("admin_only") ELSE Body

admin_only(chat, Body) ==
  IF chat.id # admin_group_id(settings) THEN Blocked("admin_only") ELSE Body

private_chat_only(chat, Body) ==
  IF chat.type # "private" THEN Blocked("private_chat_only") ELSE Body

admin_group_only_callback(chat, Body) ==
  IF chat.id # admin_group_id(settings) THEN Blocked("admin_group_only_callback") ELSE Body

private_chat_only_callback(chat, Body) ==
  IF chat.type # "private" THEN Blocked("private_chat_only_callback") ELSE Body

valid_keys == {"admin_group_id", "admin_topic_id", "balance_topic_id"}

(* /settings with the words the admin typed after the command *)
SettingsCommand(args) ==
  /\ IF Len(args) < 2 THEN UNCHANGED settings
     ELSE IF args[1] \notin valid_keys THEN UNCHANGED settings
     ELSE settings' = set_setting(settings, args[1], args[2])
  /\ reply' = NoReply
  /\ UNCHANGED <<accounts, txns, rateRow, conv, keyboards, cancelButtons, debits,
                 validation, retry, evaluated, calls>>

(* ------------------------ direct helper calls ------------------------- *)
(* the helper is applied to the pair of texts drawn at start-up           *)
CallNormalizeName ==
  /\ evaluated.fn = "none"
  /\ evaluated' = [evaluated EXCEPT !.fn = "normalize_name",
                                    !.result = <<normalize_name(evaluated.args[1]),
                                                 normalize_name(evaluated.args[2])>>]
  /\ UNCHANGED <<accounts, txns, rateRow, conv, keyboards, cancelButtons, debits, reply,
                 validation, retry, settings, calls>>

CallCalculateSimilarity ==
  /\ evaluated.fn = "none"
  /\ evaluated' = [evaluated EXCEPT !.fn = "calculate_similarity",
                                    !.result = calculate_similarity(evaluated.args[1],
                                                                    evaluated.args[2])]
  /\ UNCHANGED <<accounts, txns, rateRow, conv, keyboards, cancelButtons, debits, reply,
                 validation, retry, settings, calls>>

(* the bank comparison of validate_receiver_account on a claimed label    *)
(* and an account's bank, with the two labels after alias resolution      *)
CallBankMatches ==
  /\ evaluated.fn = "none"
  /\ evaluated' = [evaluated EXCEPT !.fn = "bank_matches",
                                    !.result = [bank_matches |-> bank_matches(evaluated.args[1],
                                                                              evaluated.args[2]),
                                                check_input_bank |->
                                                  bank_aliases(normalize_name(evaluated.args[1])),
                                                check_acc_bank |->
                                                  bank_aliases(normalize_name(evaluated.args[2]))]]
  /\ UNCHANGED <<accounts, txns, rateRow, conv, keyboards, cancelButtons, debits, reply,
                 validation, retry, settings, calls>>

(* update_rate called with the rate the admin typed after /rate *)
CallUpdateRate(new_rate) ==
  /\ rateRow' = update_rate(rateRow, new_rate)
  /\ evaluated' = [fn |-> "update_rate", args |-> <<new_rate>>, result |-> None]
  /\ UNCHANGED <<accounts, txns, conv, keyboards, cancelButtons, debits, reply,
                 validation, retry, settings, calls>>

(* initialize_balances run on the table as it stands; the table it found  *)
(* is kept as the argument of the call                                    *)
CallInitializeBalances ==
  /\ accounts' = initialize_balances(accounts, INITIAL_BALANCES)
  /\ evaluated' = [fn |-> "initialize_balances", args |-> <<accounts>>, result |-> None]
  /\ UNCHANGED <<txns, rateRow, conv, keyboards, cancelButtons, debits, reply,
                 validation, retry, settings, calls>>

(* handle_admin_receipt builds the button for the bank and id drawn at     *)
(* start-up                                                                *)
BuildCallbackData ==
  /\ evaluated.fn = "none"
  /\ evaluated' = [evaluated EXCEPT !.fn = "callback_data",
                                    !.result = callback_data(evaluated.args[1],
                                                             evaluated.args[2])]
  /\ UNCHANGED <<accounts, txns, rateRow, conv, keyboards, cancelButtons, debits, reply,
                 validation, retry, settings, calls>>

(* admin_bank_selection_callback decodes the payload of the pressed button *)
ParseCallbackData ==
  /\ evaluated.fn = "callback_data"
  /\ evaluated' = [evaluated EXCEPT !.fn = "parse_callback_data",
                                    !.result = parse_callback_data(evaluated.result)]
  /\ UNCHANGED <<accounts, txns, rateRow, conv, keyboards, cancelButtons, debits, reply,
                 validation, retry, settings, calls>>

(* ---------------------------- specifications -------------------------- *)
(* Spec: the transaction lifecycle. The requester submits with a receipt  *)
(* naming the registered holder; the operator uploads counter-receipts,   *)
(* selects payout banks and cancels; the admin changes the rate, adjusts  *)
(* the payout balance and deactivates accounts.                           *)
GoodReceipt ==
  [downloaded |-> TRUE, extracted |-> TRUE, status_ok |-> TRUE,
   receiver_name |-> "ZARNI", receiver_bank |-> "SCB", amount |-> 1]

LifecycleReceipts == {GoodReceipt}

Next ==
  \/ \E u \in Users : StartExchange(u)
  \/ \E u \in Users, r \in LifecycleReceipts : HandleReceipt(u, r)
  \/ \E u \in Users, valid \in BOOLEAN : HandleBankInfo(u, valid, TRUE)
  \/ \E m \in DOMAIN txns, t \in 0..MaxTxns : HandleAdminReceipt(m, t)
  \/ \E k \in BagToSet(keyboards), b \in {"KBZ"} : BankSelection(k, b, TRUE, TRUE)
  \/ \E t \in DOMAIN txns : AdminCancel(t)
  \/ \E r \in RateInputs : RateCommand(r)
  \/ \E id \in MatchingRows(accounts, "MMK", "KBZ") : RemoveBank(id)
  \/ \E d \in DeltaInputs : AdjustRelative("MMK", "KBZ", d)
  \/ \E v \in SetInputs : AdjustAbsolute("MMK", "KBZ", v)

Spec == Init /\ [][Next]_vars

(* SpecFault: Spec where either store call of the bank-selection handler  *)
(* may raise; the store methods catch the exception, roll back and return *)
NextFault ==
  \/ \E u \in Users : StartExchange(u)
  \/ \E u \in Users, r \in LifecycleReceipts : HandleReceipt(u, r)
  \/ \E u \in Users, valid \in BOOLEAN : HandleBankInfo(u, valid, TRUE)
  \/ \E m \in DOMAIN txns, t \in 0..MaxTxns : HandleAdminReceipt(m, t)
  \/ \E k \in BagToSet(keyboards), b \in {"KBZ"}, okBalance \in BOOLEAN, okStatus \in BOOLEAN :
       /\ BankSelection(k, b, okBalance, okStatus)
       /\ \A t \in DOMAIN debits' : debits'[t] <= MaxDebits
  \/ \E t \in DOMAIN txns : AdminCancel(t)
  \/ \E r \in RateInputs : RateCommand(r)
  \/ \E d \in DeltaInputs : AdjustRelative("MMK", "KBZ", d)

SpecFault == Init /\ [][NextFault]_vars

(* SpecSubmit: the submission protocol. The requester uploads receipts    *)
(* with any extracted record, enters amounts and account info; the admin  *)
(* initialises and changes the rate, registers a second receiving account *)
(* under the same bank and deactivates accounts.                          *)
SubmitNames == {None, "ZARNI", "Zaw"}

SubmitBankInputs == { <<"THB", "SCB", "2", "Zarmi">> }

Receipts ==
  {[GoodReceipt EXCEPT !.downloaded = FALSE], [GoodReceipt EXCEPT !.extracted = FALSE],
   [GoodReceipt EXCEPT !.status_ok = FALSE, !.receiver_bank = "KTB"]}
  \cup [downloaded : {TRUE}, extracted : {TRUE}, status_ok : {TRUE},
        receiver_name : SubmitNames, receiver_bank : OcrBanks, amount : OcrAmounts]

InitSubmit ==
  /\ accounts = InitAccounts
  /\ txns = <<>>
  /\ rateRow = <<>>
  /\ conv = [u \in Users |-> EmptyUserData]
  /\ keyboards = EmptyBag
  /\ cancelButtons = {}
  /\ debits = <<>>
  /\ reply = NoReply
  /\ validation = NoValidation
  /\ retry = NoRetry
  /\ settings = NoSettings
  /\ evaluated = NoEvaluation
  /\ calls = {}

NextSubmit ==
  \/ \E u \in Users : StartExchange(u)
  \/ \E u \in Users, r \in Receipts : HandleReceipt(u, r)
  \/ \E u \in Users, a \in AmountInputs : HandleAmount(u, a)
  \/ \E u \in Users, valid, notified \in BOOLEAN : HandleBankInfo(u, valid, notified)
  \/ \E u \in Users : CancelConversation(u)
  \/ InitializeExchangeRate
  \/ \E r \in RateInputs : RateCommand(r)
  \/ \E a \in SubmitBankInputs : AddBank(a)
  \/ \E id \in DOMAIN accounts : RemoveBank(id)

SpecSubmit == InitSubmit /\ [][NextSubmit]_vars

(* SpecLedger: the Ledger Store under the admin commands and restarts.    *)
LedgerBanks == { <<"MMK", "KBZ">>, <<"MMK", "AYA">> }

LedgerSetInputs == {1}

LedgerNames == {"ZARNI"}

NextLedger ==
  \/ \E a \in LedgerKeys : AddBank(a)
  \/ \E account_id \in DOMAIN accounts : RemoveBank(account_id)
  \/ \E b \in LedgerBanks, d \in DeltaInputs : AdjustRelative(b[1], b[2], d)
  \/ \E b \in LedgerBanks, v \in LedgerSetInputs : AdjustAbsolute(b[1], b[2], v)
  \/ Reconnect
  \/ \E n \in LedgerNames : TestReceiverValidation(n, "SCB")

SpecLedger == Init /\ [][NextLedger]_vars

(* SpecMatch: validate_receiver_account applied to claimed names and bank *)
(* labels over tables of receiving accounts.                              *)
MatchPool ==
  << [currency |-> "THB", bank_name |-> "SCB", account_number |-> "1",
      account_name |-> "Zarni", balance |-> 0, is_active |-> TRUE],
     [currency |-> "THB", bank_name |-> "KTB", account_number |-> "1",
      account_name |-> "Zarni", balance |-> 0, is_active |-> TRUE],
     [currency |-> "THB", bank_name |-> "KrungthaiBank", account_number |-> "1",
      account_name |-> "MissThinZarHtet", balance |-> 0, is_active |-> TRUE],
     [currency |-> "THB", bank_name |-> "SCB", account_number |-> "2",
      account_name |-> "Zarmi", balance |-> 0, is_active |-> TRUE] >>

RECURSIVE TableOf(_, _)
TableOf(rows, i) ==
  IF i > Len(MatchPool) THEN <<>>
  ELSE IF i \in rows THEN <<MatchPool[i]>> \o TableOf(rows, i + 1)
       ELSE TableOf(rows, i + 1)

MatchTables ==
  {TableOf(rows, 1) : rows \in {r \in SUBSET (DOMAIN MatchPool) : Cardinality(r) <= MaxAccounts}}

MatchNames == {"ZARNI", "zar ni", "Zarmi", "Miss Thin Zar Htet", "Zaw"}

MatchBanks == {None, "SCB", "KrungthaiBank", "WrongBank"}

InitMatch ==
  /\ accounts \in MatchTables
  /\ txns = <<>>
  /\ rateRow = <<DefaultRate>>
  /\ conv = [u \in Users |-> EmptyUserData]
  /\ keyboards = EmptyBag
  /\ cancelButtons = {}
  /\ debits = <<>>
  /\ reply = NoReply
  /\ validation = NoValidation
  /\ retry = NoRetry
  /\ settings = NoSettings
  /\ evaluated = NoEvaluation
  /\ calls = {}

NextMatch ==
  \/ \E n \in MatchNames, b \in MatchBanks : TestReceiverValidation(n, b)
  \/ \E account_id \in DOMAIN accounts : RemoveBank(account_id)

SpecMatch == InitMatch /\ [][NextMatch]_vars

(* SpecRetry: the retry loops around the external calls.                  *)
NextRetry ==
  \/ \E call \in ExternalCalls : BeginCall(call)
  \/ \E result \in CallResults : Attempt(result)

SpecRetry == Init /\ [][NextRetry]_vars


(* SpecText: normalize_name, calculate_similarity and the bank comparison *)
(* applied to pairs of texts: every text of at most MaxText characters    *)
(* over TextAlphabet and the fixed names and labels, against the fixed    *)
(* names and labels.                                                      *)
TextAlphabet == {"M", "r", "a", " ", "."}

Texts == UNION {[1..n -> TextAlphabet] : n \in 0..MaxText}

FixedNames ==
  { <<>>,
    <<"a">>,
    <<"M", "a">>,
    <<"m", "r", "a">>,
    <<"M", "r", ".", " ", "a">>,
    <<".">>,
    <<"M", "I", "S", "S", " ", "M", "i", "n", " ", "M", "y", "a", "t", " ", "N", "w", "e">>,
    <<"m", "i", "n", "m", "y", "a", "t", "n", "w", "e">>,
    <<"M", "i", "n", "M", "y", "a", "t", "M", "w", "e">> }

FixedLabels ==
  { <<"S", "C", "B">>,
    <<"S", "i", "a", "m", " ", "C", "o", "m", "m", "e", "r", "c", "i", "a", "l", " ", "B", "a", "n", "k">>,
    <<"S", "C", "B", " ", "T", "h", "a", "i">>,
    <<"K", "B", "a", "n", "k">>,
    <<"K", "a", "s", "i", "k", "o", "r", "n", " ", "B", "a", "n", "k">>,
    <<"W", "r", "o", "n", "g", "B", "a", "n", "k">> }

TextPairs ==
  ((Texts \cup FixedNames) \X FixedNames) \cup (FixedLabels \X FixedLabels)

InitText ==
  /\ accounts = InitAccounts
  /\ txns = <<>>
  /\ rateRow = <<DefaultRate>>
  /\ conv = [u \in Users |-> EmptyUserData]
  /\ keyboards = EmptyBag
  /\ cancelButtons = {}
  /\ debits = <<>>
  /\ reply = NoReply
  /\ validation = NoValidation
  /\ retry = NoRetry
  /\ settings = NoSettings
  /\ evaluated \in {[NoEvaluation EXCEPT !.args = pair] : pair \in TextPairs}
  /\ calls = {}

NextText ==
  \/ CallNormalizeName
  \/ CallCalculateSimilarity
  \/ CallBankMatches

SpecText == InitText /\ [][NextText]_vars

(* SpecGuard: updates arriving from any chat at the guarded handlers.     *)
Chats == { [id |-> "-100", type |-> "supergroup"], [id |-> "-200", type |-> "group"],
           [id |-> "7", type |-> "private"] }

SettingsInputs == { <<>>, <<"admin_group_id">>, <<"admin_group_id", "-200">>,
                    <<"admin_group_id", "-100">>, <<"admin_group", "-200">> }

UserUpdate(chat) ==
  \/ \E u \in Users : private_chat_only_callback(chat, StartExchange(u))
  \/ \E u \in Users, r \in LifecycleReceipts : private_chat_only(chat, HandleReceipt(u, r))
  \/ \E u \in Users, valid \in BOOLEAN : private_chat_only(chat, HandleBankInfo(u, valid, TRUE))
  \/ \E u \in Users : private_chat_only(chat, CancelConversation(u))

AdminUpdate(chat) ==
  \/ \E r \in RateInputs : admin_only(chat, RateCommand(r))
  \/ \E d \in DeltaInputs : admin_only(chat, AdjustRelative("MMK", "KBZ", d))
  \/ \E args \in SettingsInputs : admin_only(chat, SettingsCommand(args))
  \/ \E t \in DOMAIN txns : admin_group_only_callback(chat, AdminCancel(t))

NextGuard ==
  \/ \E chat \in Chats : UserUpdate(chat)
  \/ \E chat \in Chats : AdminUpdate(chat)

SpecGuard == Init /\ [][NextGuard]_vars

(* SpecInput: the requester types amounts and account info as text.      *)
AmountTexts ==
  { <<"1">>,
    <<"2">>,
    <<"0">>,
    <<"-", "1">>,
    <<" ", "1", " ">>,
    <<"1", ",">>,
    <<"a">>,
    <<"1", "a">>,
    <<>>,
    <<",">> }

BankInfoTexts ==
  { <<"K", "B", "Z", "|", "1", "|", "A">>,
    <<" ", "k", "b", "z", " ", "b", "a", "n", "k", " ", "|", " ", "1", " ", "|", " ", "A", " ">>,
    <<"K", "B", "Z", "|", "1">>,
    <<"K", "B", "Z", "|", "1", "|", "A", "|">>,
    <<"K", "B", "Z", "|", "|">>,
    <<"|", "1", "|", "A">>,
    <<"S", "C", "B", "|", "1", "|", "A">>,
    <<>> }

InputReceipts == {GoodReceipt, [GoodReceipt EXCEPT !.amount = 0]}

NextInput ==
  \/ \E u \in Users : StartExchange(u)
  \/ \E u \in Users, r \in InputReceipts : HandleReceipt(u, r)
  \/ \E u \in Users, text \in AmountTexts : HandleAmountText(u, text)
  \/ \E u \in Users, text \in BankInfoTexts, notified \in BOOLEAN :
       HandleBankInfoText(u, text, notified)
  \/ \E u \in Users : CancelConversation(u)
  \/ \E r \in RateInputs : RateCommand(r)
  \/ \E t \in DOMAIN txns : AdminCancel(t)
  \/ \E account_id \in DOMAIN accounts : RemoveBank(account_id)

SpecInput == Init /\ [][NextInput]_vars

(* SpecConfirm: two pending transactions, each with a bank-selection      *)
(* message, and a payout bank holding one or two accounts with balances   *)
(* of zero or more. The operator presses the KBZ button on both messages; *)
(* the two handlers interleave at their awaits. No admin command runs.    *)
PayoutRow(number, balance, is_active) ==
  [currency |-> "MMK", bank_name |-> "KBZ", account_number |-> number,
   account_name |-> "Admin", balance |-> balance, is_active |-> is_active]

ConfirmTables ==
  {<<InitAccounts[1], PayoutRow("1", b, TRUE)>> : b \in 0..MaxBalance}
  \cup {<<InitAccounts[1], PayoutRow("1", b[1], TRUE), PayoutRow("2", b[2], active)>> :
          b \in (0..MaxBalance) \X (0..MaxBalance), active \in BOOLEAN}

PayoutAmounts == {a \in (1..MaxBalance) \X (1..MaxBalance) : a[1] + a[2] <= MaxBalance}

PendingPair(a) ==
  create_transaction(create_transaction(<<>>, 7, a[1], a[1] * DefaultRate, DefaultRate, "SCB"),
                     8, a[2], a[2] * DefaultRate, DefaultRate, "SCB")

InitConfirm ==
  /\ accounts \in ConfirmTables
  /\ txns \in {PendingPair(a) : a \in PayoutAmounts}
  /\ rateRow = <<DefaultRate>>
  /\ conv = [u \in Users |-> EmptyUserData]
  /\ keyboards = SetToBag({[txn |-> t, banks |-> {"KBZ"}] : t \in 1..2})
  /\ cancelButtons = 1..2
  /\ debits = <<0, 0>>
  /\ reply = NoReply
  /\ validation = NoValidation
  /\ retry = NoRetry
  /\ settings = NoSettings
  /\ evaluated = NoEvaluation
  /\ calls = {}

NextConfirm ==
  \/ \E k \in BagToSet(keyboards), bank \in {"KBZ"} : AnswerCallback(k, bank)
  \/ \E c \in calls : ResumeBankSelection(c)

SpecConfirm == InitConfirm /\ [][NextConfirm]_vars

(* SpecAdjust: the update_balance calls of handlers that were dispatched  *)
(* together reach the store in any order: the credit of handle_bank_info, *)
(* the debit of admin_bank_selection_callback and the signed /adjust.     *)
StoreCall(caller, currency, bank, amount_change) ==
  [caller |-> caller, currency |-> currency, bank |-> bank, amount_change |-> amount_change]

PlannedCalls ==
  UNION {{StoreCall("handle_bank_info", "THB", "SCB", n),
          StoreCall("adjust_balance_command", "THB", "SCB", -n),
          StoreCall("admin_bank_selection_callback", "MMK", "KBZ", -n),
          StoreCall("adjust_balance_command", "MMK", "KBZ", n + 1)} : n \in 1..MaxCalls}
  \cup {StoreCall("adjust_balance_command", "THB", "SCB", MaxCalls + 1)}

UpdateBalanceCall(c) ==
  /\ c \in calls
  /\ accounts' = update_balance(accounts, c.currency, c.bank, c.amount_change, TRUE)
  /\ calls' = calls \ {c}
  /\ UNCHANGED <<txns, rateRow, conv, keyboards, cancelButtons, debits, reply>>
  /\ UNCHANGED <<validation, retry, settings, evaluated>>

InitAdjust ==
  /\ accounts = InitAccounts
  /\ txns = <<>>
  /\ rateRow = <<DefaultRate>>
  /\ conv = [u \in Users |-> EmptyUserData]
  /\ keyboards = EmptyBag
  /\ cancelButtons = {}
  /\ debits = <<>>
  /\ reply = NoReply
  /\ validation = NoValidation
  /\ retry = NoRetry
  /\ settings = NoSettings
  /\ evaluated = NoEvaluation
  /\ calls = PlannedCalls

NextAdjust == \E c \in calls : UpdateBalanceCall(c)

SpecAdjust == InitAdjust /\ [][NextAdjust]_vars

(* SpecAborted: the operator's side after a bank selection was answered   *)
(* with insufficient funds. The pending transaction has its counter-      *)
(* receipt, the pressed message has lost its buttons, the KBZ account     *)
(* holds less than the target amount or has been deactivated.             *)
AbortedAccounts ==
  {<<[InitAccounts[1] EXCEPT !.balance = 1],
     [InitAccounts[2] EXCEPT !.balance = b, !.is_active = active]>> :
     b \in 0..MaxBalance, active \in BOOLEAN}

AbortedTxns(rate) ==
  update_transaction_admin_receipt(
    create_transaction(<<>>, 7, 1, 1 * rate, rate, "SCB"), 1)

InitAborted ==
  /\ accounts \in AbortedAccounts
  /\ rateRow \in {<<DefaultRate>>} \cup {<<r>> : r \in RateInputs}
  /\ txns = AbortedTxns(rateRow[1])
  /\ InsufficientFunds(ListedBalance(accounts, "MMK", "KBZ", 0), txns[1].mmk_amount)
  /\ conv = [u \in Users |-> EmptyUserData]
  /\ keyboards = EmptyBag
  /\ cancelButtons = {1}
  /\ debits = <<0>>
  /\ reply = [result |-> "insufficient_funds",
              current |-> ListedBalance(accounts, "MMK", "KBZ", 0),
              required |-> txns[1].mmk_amount,
              shortage |-> txns[1].mmk_amount - ListedBalance(accounts, "MMK", "KBZ", 0)]
  /\ validation = NoValidation
  /\ retry = NoRetry
  /\ settings = NoSettings
  /\ evaluated = NoEvaluation
  /\ calls = {}

NextAborted ==
  \/ \E m \in DOMAIN txns, t \in 0..MaxTxns : HandleAdminReceipt(m, t)
  \/ \E k \in BagToSet(keyboards), b \in {"KBZ"} : BankSelection(k, b, TRUE, TRUE)
  \/ \E t \in DOMAIN txns : AdminCancel(t)
  \/ \E id \in MatchingRows(accounts, "MMK", "KBZ") : RemoveBank(id)
  \/ \E d \in DeltaInputs : AdjustRelative("MMK", "KBZ", d)
  \/ \E v \in SetInputs : AdjustAbsolute("MMK", "KBZ", v)

SpecAborted == InitAborted /\ [][NextAborted]_vars

(* SpecPayload: a bank name as /addbank takes it, one word without        *)
(* spaces, and a transaction id; the button payload is built and decoded. *)
BankNameAlphabet == {"K", "B", "_", "1"}

BankNameWords == UNION {[1..n -> BankNameAlphabet] : n \in 1..MaxText}

TransactionIds == {1, 12}

InitPayload ==
  /\ accounts = InitAccounts
  /\ txns = <<>>
  /\ rateRow = <<DefaultRate>>
  /\ conv = [u \in Users |-> EmptyUserData]
  /\ keyboards = EmptyBag
  /\ cancelButtons = {}
  /\ debits = <<>>
  /\ reply = NoReply
  /\ validation = NoValidation
  /\ retry = NoRetry
  /\ settings = NoSettings
  /\ evaluated \in {[NoEvaluation EXCEPT !.args = <<bank_name, id>>] :
                      bank_name \in BankNameWords, id \in TransactionIds}
  /\ calls = {}

NextPayload == BuildCallbackData \/ ParseCallbackData

SpecPayload == InitPayload /\ [][NextPayload]_vars

(* SpecRestart: initialize_balances run any number of times on tables    *)
(* holding configured banks (SCB, KBZ) and a bank with no configured      *)
(* balance (AYA), between signed /adjust commands.                        *)
RestartTables ==
  {<<[InitAccounts[1] EXCEPT !.balance = b[1]],
     [InitAccounts[2] EXCEPT !.balance = b[2], !.is_active = active],
     [InitAccounts[2] EXCEPT !.bank_name = "AYA", !.balance = b[3]]>> :
     b \in (0..MaxBalance) \X (-MaxOverdraft..MaxBalance) \X (0..MaxBalance),
     active \in BOOLEAN}

InitRestart ==
  /\ accounts \in RestartTables
  /\ txns = <<>>
  /\ rateRow = <<DefaultRate>>
  /\ conv = [u \in Users |-> EmptyUserData]
  /\ keyboards = EmptyBag
  /\ cancelButtons = {}
  /\ debits = <<>>
  /\ reply = NoReply
  /\ validation = NoValidation
  /\ retry = NoRetry
  /\ settings = NoSettings
  /\ evaluated = NoEvaluation
  /\ calls = {}

NextRestart ==
  \/ CallInitializeBalances
  \/ \E b \in LedgerBanks, d \in DeltaInputs : AdjustRelative(b[1], b[2], d)

SpecRestart == InitRestart /\ [][NextRestart]_vars

(* SpecRate: the exchange_rate table from a database in which the rate    *)
(* row has not been inserted yet; the rate is initialised and updated     *)
(* while a requester goes through the conversation.                       *)
RateCallInputs == {2, 3}

NextRate ==
  \/ InitializeExchangeRate
  \/ \E r \in RateCallInputs : CallUpdateRate(r)
  \/ \E u \in Users : StartExchange(u)
  \/ \E u \in Users, r \in Receipts : HandleReceipt(u, r)
  \/ \E u \in Users, a \in AmountInputs : HandleAmount(u, a)
  \/ \E u \in Users, valid \in BOOLEAN : HandleBankInfo(u, valid, TRUE)
  \/ \E u \in Users : CancelConversation(u)

SpecRate == InitSubmit /\ [][NextRate]_vars

(* SpecButton: two pending transactions and two payout banks registered  *)
(* with /addbank as K and K_1. The operator replies with counter-receipts, *)
(* presses bank buttons and cancels.                                      *)
ButtonTables ==
  {<<[InitAccounts[1] EXCEPT !.balance = MaxBalance],
     [InitAccounts[2] EXCEPT !.bank_name = "K", !.balance = b[1]],
     [InitAccounts[2] EXCEPT !.bank_name = "K_1", !.balance = b[2]]>> :
     b \in (0..MaxBalance) \X (0..MaxBalance)}

InitButton ==
  /\ accounts \in ButtonTables
  /\ txns \in {PendingPair(a) : a \in PayoutAmounts}
  /\ rateRow = <<DefaultRate>>
  /\ conv = [u \in Users |-> EmptyUserData]
  /\ keyboards = EmptyBag
  /\ cancelButtons = 1..2
  /\ debits = <<0, 0>>
  /\ reply = NoReply
  /\ validation = NoValidation
  /\ retry = NoRetry
  /\ settings = NoSettings
  /\ evaluated = NoEvaluation
  /\ calls = {}

NextButton ==
  \/ \E m \in DOMAIN txns, t \in DOMAIN txns : HandleAdminReceipt(m, t)
  \/ \E k \in BagToSet(keyboards) : \E b \in k.banks : BankSelection(k, b, TRUE, TRUE)
  \/ \E t \in DOMAIN txns : AdminCancel(t)

SpecButton == InitButton /\ [][NextButton]_vars

(* SpecReply: two pending transactions of one requester, both announced   *)
(* in the admin group by a text notification with its Cancel button; the  *)
(* operator replies with counter-receipts, selects banks and cancels.     *)
RequesterPair(a) ==
  create_transaction(create_transaction(<<>>, 7, a[1], a[1] * DefaultRate, DefaultRate, "SCB"),
                     7, a[2], a[2] * DefaultRate, DefaultRate, "SCB")

InitReply ==
  /\ accounts = InitAccounts
  /\ txns \in {RequesterPair(a) : a \in PayoutAmounts}
  /\ rateRow = <<DefaultRate>>
  /\ conv = [u \in Users |-> EmptyUserData]
  /\ keyboards = EmptyBag
  /\ cancelButtons = 1..2
  /\ debits = <<0, 0>>
  /\ reply = NoReply
  /\ validation = NoValidation
  /\ retry = NoRetry
  /\ settings = NoSettings
  /\ evaluated = NoEvaluation
  /\ calls = {}

SpecReply == InitReply /\ [][NextButton]_vars

(* SpecPositive: the requester conversation while the admin sets the rate *)
(* with /rate, whose argument is parsed by float() and stored as it is:   *)
(* zero and negative numbers are accepted.                                *)
RateArguments == {-1, 0, 2}

NextPositive ==
  \/ \E r \in RateArguments : RateCommand(r)
  \/ \E u \in Users : StartExchange(u)
  \/ \E u \in Users, r \in Receipts : HandleReceipt(u, r)
  \/ \E u \in Users, a \in AmountInputs : HandleAmount(u, a)
  \/ \E u \in Users, valid, notified \in BOOLEAN : HandleBankInfo(u, valid, notified)
  \/ \E u \in Users : CancelConversation(u)

SpecPositive == Init /\ [][NextPositive]_vars

(* ------------------------------- claims ------------------------------- *)
Terminal == {"confirmed", "cancelled"}

(* C1: in every reachable state the balance of every ledger account is    *)
(* greater than or equal to zero.                                         *)
C1_BalanceNeverNegative ==
  \A i \in DOMAIN accounts : accounts[i].balance >= 0

(* C2: the payout account is debited for a transaction at most once, over *)
(* any number of deliveries of its confirmation callback.                 *)
C2_AtMostOneDebit ==
  \A t \in DOMAIN debits : debits[t] <= 1

(* C3: a transaction's status never changes again once it is confirmed or *)
(* cancelled.                                                             *)
C3_StatusMonotonic ==
  [][\A t \in DOMAIN txns :
       txns[t].status \in Terminal => txns'[t].status = txns[t].status]_vars

(* C4: a confirm or cancel request for a transaction that is already      *)
(* confirmed or cancelled leaves the transaction and every balance as     *)
(* they were.                                                             *)
C4_TerminalRequestIsNoOp ==
  [][\A t \in DOMAIN txns :
       (/\ txns[t].status \in Terminal
        /\ \/ AdminCancel(t)
           \/ \E k \in BagToSet(keyboards) :
                k.txn = t /\ BankSelection(k, "KBZ", TRUE, TRUE))
       => (txns' = txns /\ accounts' = accounts)]_vars

(* C5: no transaction has a committed payout debit while it is still      *)
(* pending, and none is confirmed without a committed payout debit, also  *)
(* when a store call fails.                                               *)
C5_DebitAndStatusAtomic ==
  \A t \in DOMAIN txns :
    /\ txns[t].status = "pending" => debits[t] = 0
    /\ txns[t].status = "confirmed" => debits[t] >= 1

C8_CancelKeepsBalances ==
  [][\A t \in DOMAIN txns :
       (txns[t].status = "pending" /\ AdminCancel(t))
       => (txns'[t].status = "cancelled" /\ accounts' = accounts)]_vars

(* cancelled without ever being paid out, the submission credit still there *)
C8_Witness ==
  /\ \E t \in DOMAIN txns : txns[t].status = "cancelled" /\ debits[t] = 0
  /\ accounts[1].balance = Len(txns)

(* C9: the rate and the target amount stored on a transaction never change. *)
C9_RateSnapshotImmutable ==
  [][\A t \in DOMAIN txns :
       /\ txns'[t].rate = txns[t].rate
       /\ txns'[t].mmk_amount = txns[t].mmk_amount]_vars

(* a confirmed transaction whose snapshot differs from the current rate *)
C9_Witness ==
  \E t \in DOMAIN txns :
    /\ txns[t].status = "confirmed"
    /\ txns[t].admin_receipt_path # NoTime
    /\ get_current_rate(rateRow) # txns[t].rate

(* C10: a submission with a matched receiving account creates a pending   *)
(* transaction whose target amount is source amount times the current     *)
(* rate, and raises the balance of exactly one account, the matched one,  *)
(* by the source amount.                                                  *)
C10_SubmissionCreditsOneAccount ==
  [][\A u \in Users :
       (HandleBankInfo(u, TRUE, TRUE) /\ conv[u].admin_thb_bank # "Unset")
       => LET t == Len(txns) + 1
          IN /\ txns'[t].status = "pending"
             /\ txns'[t].rate = get_current_rate(rateRow)
             /\ txns'[t].mmk_amount = txns'[t].thb_amount * txns'[t].rate
             /\ \E a \in DOMAIN accounts :
                  /\ accounts[a].currency = "THB"
                  /\ accounts[a].bank_name = conv[u].admin_thb_bank
                  /\ \A i \in DOMAIN accounts :
                       accounts'[i].balance =
                         IF i = a THEN accounts[i].balance + conv[u].thb_amount
                         ELSE accounts[i].balance]_vars

(* C11: when a receiver name was extracted from the receipt and the       *)
(* matcher finds no acceptable active receiving account for THB, the      *)
(* submission is rejected: no transaction is created, no balance changes  *)
(* and the conversation stays at the receipt-upload step.                 *)
C11_UnmatchedReceiverRejected ==
  [][\A u \in Users, r \in Receipts :
       (/\ r.downloaded /\ r.extracted /\ r.status_ok
        /\ r.receiver_name # None
        /\ conv[u].step = UPLOAD_RECEIPT
        /\ validate_receiver_account(accounts, r.receiver_name, r.receiver_bank, "THB") = 0
        /\ HandleReceipt(u, r))
       => /\ txns' = txns
          /\ accounts' = accounts
          /\ conv'[u].step = UPLOAD_RECEIPT]_vars

(* a receipt naming 'Zaw' with an unreadable bank has been rejected while  *)
(* every account is active: the receipt data is kept, nothing else moved  *)
C11_Witness ==
  \E u \in Users :
    /\ conv[u].step = UPLOAD_RECEIPT
    /\ conv[u].receiver_bank = None
    /\ conv[u].admin_thb_bank = "Unset"
    /\ \A i \in DOMAIN accounts : accounts[i].is_active /\ accounts[i].balance = InitAccounts[i].balance
    /\ txns = <<>>

(* C12: when the operator notification for a new submission cannot be     *)
(* delivered after the retries, the submission leaves no pending          *)
(* transaction and no submission credit behind.                           *)
C12_UndeliveredSubmissionLeavesNothing ==
  [][\A u \in Users :
       HandleBankInfo(u, TRUE, FALSE) => (txns' = txns /\ accounts' = accounts)]_vars

(* C13: every retry loop around an external call ends after at most 3     *)
(* attempts: a transient failure on attempt 1 is followed by a 2-second   *)
(* delay, on attempt 2 by a 4-second delay, a failure on attempt 3 ends   *)
(* the loop with a failure outcome and no further delay or attempt, and a *)
(* success on any attempt ends the loop at once.                          *)
C13_RetryLoopBounded ==
  retry.outcome # "idle" =>
    LET failures == {i \in DOMAIN retry.results : retry.results[i] \in TransientErrors}
    IN /\ retry.attempt = Len(retry.results)
       /\ retry.attempt <= 3
       /\ retry.outcome = "running" =>
            /\ retry.attempt < 3
            /\ failures = 1..retry.attempt
            /\ retry.sleeps = SubSeq(<<2, 4>>, 1, retry.attempt)
       /\ retry.outcome = "returned" =>
            /\ retry.results[retry.attempt] = "ok"
            /\ failures = 1..(retry.attempt - 1)
            /\ retry.sleeps = SubSeq(<<2, 4>>, 1, retry.attempt - 1)
       /\ retry.outcome = "failed" =>
            /\ retry.attempt = 3
            /\ failures = 1..3
            /\ retry.sleeps = <<2, 4>>

(* three transient failures in a row: the loop has given up after sleeping *)
(* 2 and 4 seconds                                                         *)
C13_Witness ==
  /\ retry.outcome = "failed"
  /\ retry.attempt = 3
  /\ retry.sleeps = <<2, 4>>
  /\ retry.call \in ExternalCalls

(* C14: for every registered (currency, bank) and every delta, an adjust  *)
(* followed by a read yields the previous balance plus delta, and the     *)
(* balance read is still the same after the store is reconnected with its *)
(* start-up initialisation.                                               *)
C14_AdjustIsDurable ==
  [][/\ \A b \in LedgerBanks, d \in DeltaInputs :
          (MatchingRows(accounts, b[1], b[2]) # {} /\ AdjustRelative(b[1], b[2], d))
          => get_balance(accounts', b[1], b[2]) = get_balance(accounts, b[1], b[2]) + d
     /\ Reconnect
          => \A b \in LedgerBanks :
               MatchingRows(accounts, b[1], b[2]) # {}
               => get_balance(accounts', b[1], b[2]) = get_balance(accounts, b[1], b[2])]_vars

(* C15: an adjust or a set for a (currency, bank) that has no active      *)
(* account changes no balance, also not that of a deactivated account of  *)
(* that currency and bank.                                                *)
C15_NoActiveAccountNoChange ==
  [][\A b \in LedgerBanks :
       ListedRows(accounts, b[1], b[2]) = {}
       => /\ \A d \in DeltaInputs : AdjustRelative(b[1], b[2], d) => accounts' = accounts
          /\ \A v \in LedgerSetInputs : AdjustAbsolute(b[1], b[2], v) => accounts' = accounts]_vars

(* C16: registering a (currency, bank, account number) that already       *)
(* exists leaves the existing row (holder name, balance, active flag) and *)
(* every other row unchanged, and at most one row exists per key.         *)
C16_RegisterIsIdempotent ==
  [][/\ \A a \in LedgerKeys :
          (/\ \E i \in DOMAIN accounts : /\ accounts[i].currency = a[1]
                                         /\ accounts[i].bank_name = a[2]
                                         /\ accounts[i].account_number = a[3]
           /\ AddBank(a))
          => accounts' = accounts
     /\ \A i, j \in DOMAIN accounts' :
          (/\ accounts'[i].currency = accounts'[j].currency
           /\ accounts'[i].bank_name = accounts'[j].bank_name
           /\ accounts'[i].account_number = accounts'[j].account_number)
          => i = j]_vars

(* the second KBZ account was registered for 'Admin' (or 'Zaw'), adjusted  *)
(* and deactivated: registering its key again must not reset it           *)
C16_Witness ==
  \E i \in DOMAIN accounts :
    /\ accounts[i].currency = "MMK" /\ accounts[i].bank_name = "KBZ"
    /\ accounts[i].account_number = "2"
    /\ accounts[i].balance # 0
    /\ ~accounts[i].is_active

(* C17: no operation removes an account. Deactivating only clears the     *)
(* active flag and keeps the row and its balance, the flag is never set   *)
(* again, and a deactivated account is not listed by get_balances or      *)
(* get_admin_bank_accounts and is never the result of the matcher.        *)
C17_AccountsNeverRemoved ==
  [][/\ Len(accounts') >= Len(accounts)
     /\ \A i \in DOMAIN accounts :
          /\ accounts'[i].currency = accounts[i].currency
          /\ accounts'[i].bank_name = accounts[i].bank_name
          /\ accounts'[i].account_number = accounts[i].account_number
          /\ ~accounts[i].is_active => ~accounts'[i].is_active
     /\ \A account_id \in DOMAIN accounts :
          RemoveBank(account_id)
          => accounts' = [accounts EXCEPT ![account_id].is_active = FALSE]
     /\ \A i \in DOMAIN accounts' :
          ~accounts'[i].is_active
          => /\ i \notin get_balances(accounts')
             /\ i \notin get_admin_bank_accounts(accounts', accounts'[i].currency)
     /\ \A n \in LedgerNames :
          TestReceiverValidation(n, "SCB")
          => \/ validation'.result = 0
             \/ accounts[validation'.result].is_active]_vars

(* the receiving account of 'Zarni' was deactivated with its balance kept  *)
(* and a later matcher call for 'ZARNI' at 'SCB' found no account         *)
C17_Witness ==
  /\ ~accounts[1].is_active
  /\ accounts[1].balance = 2
  /\ validation.called
  /\ validation.result = 0

(* C18: whenever the matcher returns an account, no other active account  *)
(* of the currency has a strictly higher score (name similarity plus the  *)
(* bank-match bonus) for the claimed name and bank.                       *)
C18_MatcherReturnsBestCandidate ==
  [][\A n \in MatchNames, b \in MatchBanks :
       (TestReceiverValidation(n, b) /\ validation'.result # 0)
       => \A other \in ActiveRows(accounts, "THB") :
            ~FracGt(MatchScore(accounts, other, n, b),
                    MatchScore(accounts, validation'.result, n, b))]_vars

C20_CaseAndSpaceVariantAccepted ==
  [][LET folded(name) == SelectSeq(LowerAll(Chars(name)), LAMBDA c : ~IsSpace(c))
     IN \A n \in MatchNames, b \in MatchBanks :
          (/\ \E i \in ActiveRows(accounts, "THB") :
                  /\ folded(n) = folded(accounts[i].account_name)
                  /\ b = accounts[i].bank_name
           /\ TestReceiverValidation(n, b))
          => validation'.result # 0]_vars

(* C21: when a bank label is supplied, the matcher returns an account     *)
(* only if the claimed name matches the account's holder name (exactly    *)
(* after normalization, or with similarity at least the threshold) and    *)
(* the claimed bank label matches the account's bank; in particular the   *)
(* correct holder name at 'WrongBank' yields no match.                    *)
C21_ReturnedAccountMatchesNameAndBank ==
  [][\A n \in MatchNames, b \in MatchBanks \ {None} :
       (TestReceiverValidation(n, b) /\ validation'.result # 0)
       => /\ \/ NormalizedName[n] = NormalizedName[accounts[validation'.result].account_name]
             \/ FracGeq(NameSimilarity[n][accounts[validation'.result].account_name],
                        similarity_threshold)
          /\ BankMatches[b][accounts[validation'.result].bank_name]]_vars

(* the edit distance of two texts by its recurrence over their prefixes:  *)
(* d holds the distances of the prefix pairs <<i, j>> before pair k, in   *)
(* the order <<0, 0>>, <<0, 1>>, ...                                      *)
EditDistance(s, t) ==
  LET n == Len(t) + 1
      total == (Len(s) + 1) * n
      Dist[k \in 0..total, d \in Seq(Nat)] ==
        IF k = total THEN d[total]
        ELSE LET i == k \div n
                 j == k % n
                 v == IF i = 0 THEN j
                      ELSE IF j = 0 THEN i
                      ELSE Min2(Min2(d[(i - 1) * n + j + 1] + 1, d[i * n + j] + 1),
                                d[(i - 1) * n + j] + (IF s[i] = t[j] THEN 0 ELSE 1))
             IN Dist[k + 1, Append(d, v)]
  IN Dist[0, <<>>]

(* the properties of C22 for one evaluated call, where sameScore says     *)
(* for which arguments the score must be exactly 1                        *)
SimilarityContract(sameScore(_, _)) ==
  evaluated.fn = "calculate_similarity" =>
    LET str1 == evaluated.args[1]
        str2 == evaluated.args[2]
        s1 == normalize_name(str1)
        s2 == normalize_name(str2)
        max_len == IF Len(s1) >= Len(s2) THEN Len(s1) ELSE Len(s2)
        r == evaluated.result
    IN /\ r[2] > 0 /\ r[1] >= 0 /\ r[1] <= r[2]
       /\ calculate_similarity(str2, str1) = r
       /\ sameScore(str1, str2) => r = <<1, 1>>
       /\ (str1 = <<>> \/ str2 = <<>>) => r[1] = 0
       /\ (str1 # <<>> /\ str2 # <<>> /\ max_len > 0)
            => r[1] * max_len = (max_len - EditDistance(s1, s2)) * r[2]

(* C22 as stated: for all pairs of strings calculate_similarity returns a  *)
(* value in [0,1] equal to 1 - editDistance/max(len1,len2) on the         *)
(* normalized strings, is symmetric, returns exactly 1.0 when the two     *)
(* normalized strings are identical, and 0.0 when either string is empty. *)
C22_SimilarityAsStated ==
  SimilarityContract(LAMBDA str1, str2 : normalize_name(str1) = normalize_name(str2))

(* C22 amended: as above, with the score exactly 1.0 when the two         *)
(* normalized strings are identical and neither argument is empty, and    *)
(* 0.0 when either argument is empty, also when both are.                 *)
C22_SimilarityContract ==
  SimilarityContract(LAMBDA str1, str2 : /\ str1 # <<>> /\ str2 # <<>>
                                         /\ normalize_name(str1) = normalize_name(str2))

(* 'MinMyatMwe' against 'minmyatnwe': one substitution in ten characters  *)
C22_Witness ==
  /\ evaluated.fn = "calculate_similarity"
  /\ evaluated.args = << <<"M", "i", "n", "M", "y", "a", "t", "M", "w", "e">>,
                         <<"m", "i", "n", "m", "y", "a", "t", "n", "w", "e">> >>
  /\ evaluated.result = <<9, 10>>

(* the lowercase alphanumeric characters of a name *)
Fold(name) == SelectSeq(LowerAll(name), IsAlnum)

(* the readings of a name: its folded characters, and those of what       *)
(* follows a leading honorific and its space or dot                       *)
Readings(name) ==
  LET trimmed == Strip(LowerAll(name))
  IN {Fold(name)} \cup
     {Fold(SubSeq(trimmed, Len(prefixes[k]) + 2, Len(trimmed))) :
        k \in {h \in DOMAIN prefixes : \/ StartsWith(trimmed, prefixes[h] \o <<" ">>)
                                       \/ StartsWith(trimmed, prefixes[h] \o <<".">>)}}

(* C23: normalize_name yields lowercase alphanumeric characters with one  *)
(* leading honorific removed, so that two names that differ only in       *)
(* letter case, whitespace, non-alphanumeric characters and a leading     *)
(* honorific followed by a space or dot normalize to the same string      *)
(* (as 'MISS Min Myat Nwe' and 'minmyatnwe' do), and normalizing a        *)
(* normalized name changes nothing.                                       *)
C23_NormalizeIdentifiesVariants ==
  evaluated.fn = "normalize_name" =>
    /\ \A i \in {1, 2} : /\ evaluated.result[i] \in Readings(evaluated.args[i])
                          /\ normalize_name(evaluated.result[i]) = evaluated.result[i]
    /\ Readings(evaluated.args[1]) \cap Readings(evaluated.args[2]) # {}
         => evaluated.result[1] = evaluated.result[2]

EitherContains(a, b) == IsSubstring(a, b) \/ IsSubstring(b, a)

(* the properties of C24 for one evaluated comparison, where related says *)
(* which pairs of labels are to match                                     *)
BankMatchContract(related(_, _)) ==
  evaluated.fn = "bank_matches" =>
    /\ evaluated.result.bank_matches <=> related(evaluated.args[1], evaluated.args[2])
    /\ bank_matches(evaluated.args[2], evaluated.args[1]) = evaluated.result.bank_matches
    /\ evaluated.args = << <<"S", "C", "B">>,
                           <<"S", "i", "a", "m", " ", "C", "o", "m", "m", "e", "r", "c", "i", "a", "l", " ", "B", "a", "n", "k">> >>
         => evaluated.result.check_input_bank = evaluated.result.check_acc_bank

(* C24 as stated: 'SCB' and 'Siam Commercial Bank' have the same          *)
(* canonical form, and two labels match exactly when their canonical      *)
(* forms are equal or one canonical form is a substring of the other;     *)
(* the relation is symmetric.                                             *)
C24_BankMatchAsStated ==
  BankMatchContract(LAMBDA a, b :
    EitherContains(bank_aliases(normalize_name(a)), bank_aliases(normalize_name(b))))

(* C24 amended: two labels match exactly when their canonical forms are   *)
(* equal, or one canonical form is a substring of the other, or one       *)
(* normalized label is a substring of the other normalized label.         *)
C24_BankMatchContract ==
  BankMatchContract(LAMBDA a, b :
    \/ EitherContains(bank_aliases(normalize_name(a)), bank_aliases(normalize_name(b)))
    \/ EitherContains(normalize_name(a), normalize_name(b)))

(* 'SCB' was compared with 'Siam Commercial Bank': same canonical form    *)
C24_Witness ==
  /\ evaluated.fn = "bank_matches"
  /\ evaluated.args[1] = <<"S", "C", "B">>
  /\ Len(evaluated.args[2]) = 20
  /\ evaluated.result.bank_matches
  /\ evaluated.result.check_input_bank = evaluated.result.check_acc_bank
  /\ Len(evaluated.result.check_acc_bank) = 18

(* C25: an admin command or callback arriving in a chat whose id is not   *)
(* the current admin group id (the stored setting if present, else the    *)
(* configured one), or a user command or callback arriving in a chat that *)
(* is not private, does not run its body: the wrapper answers with its    *)
(* warning, and the ledger, the transactions, the rate, the settings and  *)
(* the conversations are unchanged.                                       *)
C25_GuardBlocksOutsideContext ==
  [][\A chat \in Chats :
       (\/ chat.id # admin_group_id(settings) /\ AdminUpdate(chat)
        \/ chat.type # "private" /\ UserUpdate(chat))
       => /\ reply'.result \in {"admin_only", "admin_group_only_callback",
                                "private_chat_only", "private_chat_only_callback"}
          /\ UNCHANGED <<accounts, txns, rateRow, conv, keyboards, cancelButtons, debits,
                         settings, calls>>]_vars

(* after the admin group was moved to chat -200 by /settings, an admin    *)
(* command was refused while a transaction was pending                    *)
C25_Witness ==
  /\ reply.result = "admin_only"
  /\ settings.admin_group_id = "-200"
  /\ Len(txns) = 1 /\ txns[1].status = "pending"

(* C26: an amount text that validate_amount rejects, or account info that *)
(* validate_bank_info rejects, leaves the conversation at the same step,  *)
(* creates no transaction and changes no balance.                         *)
C26_MalformedInputRejected ==
  [][\A u \in Users :
       /\ \A text \in AmountTexts :
            (validate_amount(text) = <<>> /\ HandleAmountText(u, text))
            => (conv'[u].step = conv[u].step /\ txns' = txns /\ accounts' = accounts)
       /\ \A text \in BankInfoTexts, notified \in BOOLEAN :
            (validate_bank_info(text) = <<>> /\ HandleBankInfoText(u, text, notified))
            => (conv'[u].step = conv[u].step /\ txns' = txns /\ accounts' = accounts)]_vars

(* C27: a counter-receipt reply never attaches a receipt reference to a   *)
(* transaction that is confirmed or cancelled, and every payout-bank      *)
(* selection it offers is for a transaction that was pending when the     *)
(* reply arrived.                                                         *)
C27_TerminalCounterReceiptRefused ==
  [][\A m \in DOMAIN txns, t \in 0..MaxTxns :
       HandleAdminReceipt(m, t)
       => /\ \A i \in DOMAIN txns : txns[i].status \in Terminal => txns'[i] = txns[i]
          /\ \A k \in BagToSet(keyboards') :
               CopiesIn(k, keyboards') > CopiesIn(k, keyboards)
               => txns[k.txn].status = "pending"
          /\ (t # 0 /\ txns[t].status \in Terminal) => keyboards' = keyboards]_vars

(* the operator replied with a counter-receipt to the notification of a   *)
(* transaction that was already confirmed, and was refused                *)
C27_Witness ==
  /\ reply.result = "already_confirmed"
  /\ \E t \in DOMAIN txns : txns[t].status = "confirmed" /\ t \in cancelButtons
  /\ keyboards = EmptyBag

(* C28: a receipt whose download failed on every attempt, or from which   *)
(* no record was extracted, or whose extracted status does not contain    *)
(* 'success', leaves the conversation at the receipt-upload step, creates *)
(* no transaction and changes no balance, however often it is repeated.   *)
C28_RejectedUploadKeepsState ==
  [][\A u \in Users, r \in Receipts :
       ((~r.downloaded \/ ~r.extracted \/ ~r.status_ok) /\ HandleReceipt(u, r))
       => /\ conv'[u].step = UPLOAD_RECEIPT
          /\ txns' = txns
          /\ accounts' = accounts]_vars

(* the receipt with the unsuccessful status (the only one naming KTB) was *)
(* uploaded and refused after an earlier submission went through          *)
C28_Witness ==
  \E u \in Users :
    /\ conv[u].step = UPLOAD_RECEIPT
    /\ conv[u].receiver_bank = "KTB"
    /\ Len(txns) = 1

(* C29: when confirmation callbacks for different pending transactions    *)
(* select the same payout bank and interleave, each debit is made on the  *)
(* balances its own insufficiency check read, and after it no account     *)
(* registered under the selected currency and bank is below zero.         *)
C29_InterleavedConfirmationsNeverOverdraw ==
  [][\A c \in calls :
       ResumeBankSelection(c)
       => /\ accounts' # accounts
             => ~InsufficientFunds(ListedBalance(accounts, "MMK", c.bank, 0),
                                   txns[c.k.txn].mmk_amount)
          /\ \A i \in MatchingRows(accounts', "MMK", c.bank) :
               accounts'[i].balance >= 0]_vars

RECURSIVE SumOfChanges(_)
SumOfChanges(S) ==
  IF S = {} THEN 0
  ELSE LET c == CHOOSE x \in S : TRUE IN c.amount_change + SumOfChanges(S \ {c})

AppliedTo(i) ==
  {c \in PlannedCalls \ calls :
     c.currency = InitAccounts[i].currency /\ c.bank = InitAccounts[i].bank_name}

(* C30: in whatever order the credits, debits and signed adjustments of   *)
(* one account reach the store, its balance is its initial balance plus   *)
(* the sum of the changes applied so far, and so at the end the sum of    *)
(* all of them.                                                           *)
C30_NoLostUpdate ==
  \A i \in DOMAIN accounts :
    accounts[i].balance = InitAccounts[i].balance + SumOfChanges(AppliedTo(i))

(* every planned call has been applied: credits and adjustments on the    *)
(* receiving account, debits and adjustments on the payout account        *)
C30_Witness ==
  /\ calls = {}
  /\ accounts[1].balance = InitAccounts[1].balance + MaxCalls + 1
  /\ accounts[2].balance = InitAccounts[2].balance + MaxCalls

(* the retry of a pending transaction t once `covered` holds of it: a     *)
(* counter-receipt reply puts up a new bank-selection message offering    *)
(* KBZ, and pressing KBZ on any of its messages confirms it with one      *)
(* debit of the target amount                                             *)
RetrySucceeds(covered(_)) ==
  \A t \in DOMAIN txns :
    (txns[t].status = "pending" /\ covered(t))
    => /\ HandleAdminReceipt(t, t)
          => \E k \in BagToSet(keyboards') :
               /\ k.txn = t /\ "KBZ" \in k.banks
               /\ CopiesIn(k, keyboards') = CopiesIn(k, keyboards) + 1
       /\ \A k \in BagToSet(keyboards) :
            (k.txn = t /\ BankSelection(k, "KBZ", TRUE, TRUE))
            => /\ txns'[t].status = "confirmed"
               /\ debits'[t] = debits[t] + 1
               /\ get_balance(accounts', "MMK", "KBZ") =
                    get_balance(accounts, "MMK", "KBZ") - txns[t].mmk_amount

C32_PayloadRoundTrips ==
  evaluated.fn = "parse_callback_data"
  => /\ evaluated.result.raised = "none"
     /\ evaluated.result.bank = evaluated.args[1]
     /\ evaluated.result.transaction_id = evaluated.args[2]

ConfiguredBalance(currency, bank) ==
  {b[3] : b \in {c \in INITIAL_BALANCES : c[1] = currency /\ c[2] = bank}}

(* C33: each run of initialize_balances gives an account the configured   *)
(* initial value of its bank only where the stored balance is 0, and      *)
(* leaves every account with a non-zero balance, and every account of a   *)
(* bank with no configured value, as it was.                              *)
C33_InitializeOnlyZeroBalances ==
  [][CallInitializeBalances
     => \A i \in DOMAIN accounts :
          /\ accounts[i].balance # 0 => accounts'[i] = accounts[i]
          /\ accounts'[i].balance # accounts[i].balance
             => /\ accounts[i].balance = 0
                /\ accounts'[i].balance \in
                     ConfiguredBalance(accounts[i].currency, accounts[i].bank_name)
          /\ (/\ accounts[i].balance = 0
              /\ ConfiguredBalance(accounts[i].currency, accounts[i].bank_name) # {})
             => accounts'[i].balance \in
                  ConfiguredBalance(accounts[i].currency, accounts[i].bank_name)]_vars

(* a run found the KBZ account at 0 and the SCB account at 1: KBZ now has *)
(* the configured 2, SCB still has 1, the unconfigured AYA account is as  *)
(* it was                                                                 *)
C33_Witness ==
  /\ evaluated.fn = "initialize_balances"
  /\ evaluated.args[1][1].balance = 1 /\ accounts[1].balance = 1
  /\ evaluated.args[1][2].balance = 0 /\ accounts[2].balance = 2
  /\ evaluated.args[1][3].balance = 0 /\ accounts[3].balance = 0

(* C34: once update_rate(r) has completed, get_current_rate returns r     *)
(* until the next update_rate, also when the rate row had not been        *)
(* initialised; and initialize_exchange_rate leaves a stored rate as it   *)
(* is.                                                                    *)
C34_UpdatedRateIsCurrent ==
  [][/\ evaluated'.fn = "update_rate" => get_current_rate(rateRow') = evaluated'.args[1]
     /\ (InitializeExchangeRate /\ rateRow # <<>>) => rateRow' = rateRow]_vars

C36_ConfirmedHasCounterReceipt ==
  \A t \in DOMAIN txns :
    txns[t].status = "confirmed" => txns[t].admin_receipt_path # NoTime

(* C37: with submissions only, the balances of all THB accounts sum to    *)
(* their initial sum plus the source amounts of all created transactions. *)
RECURSIVE SumBalances(_, _)
SumBalances(accts, currency) ==
  IF accts = <<>> THEN 0
  ELSE (IF accts[Len(accts)].currency = currency THEN accts[Len(accts)].balance ELSE 0)
       + SumBalances(SubSeq(accts, 1, Len(accts) - 1), currency)

RECURSIVE SumSourceAmounts(_)
SumSourceAmounts(ts) ==
  IF ts = <<>> THEN 0
  ELSE ts[Len(ts)].thb_amount + SumSourceAmounts(SubSeq(ts, 1, Len(ts) - 1))

C37_SubmissionCreditsConserved ==
  SumBalances(accounts, "THB") = SumBalances(InitAccounts, "THB") + SumSourceAmounts(txns)

(* C38: a counter-receipt reply attaches the receipt to, and offers the   *)
(* bank selection for, only the transaction that the replied-to message   *)
(* announces, whatever the status of that transaction.                    *)
C38_ReceiptAppliedToAnnounced ==
  [][\A m \in DOMAIN txns, transaction_id \in DOMAIN txns :
       (HandleAdminReceipt(m, transaction_id) /\ (txns' # txns \/ keyboards' # keyboards))
       => transaction_id = m]_vars

(* C39: the rate and the target amount quoted to the requester when the   *)
(* amount was accepted are the rate and the target amount stored on the   *)
(* transaction created at the account-info step.                          *)
C39_QuoteEqualsSnapshot ==
  [][\A u \in Users, notified \in BOOLEAN :
       (HandleBankInfo(u, TRUE, notified) /\ Len(txns') = Len(txns) + 1)
       => /\ txns'[Len(txns')].rate = conv[u].quoted_rate
          /\ txns'[Len(txns')].mmk_amount = conv[u].quoted_mmk]_vars

(* C40: every transaction ever created has a strictly positive source     *)
(* amount and a strictly positive target amount.                          *)
C40_CreatedAmountsPositive ==
  \A t \in DOMAIN txns : txns[t].thb_amount > 0 /\ txns[t].mmk_amount > 0

====
